---- MODULE Spec2Model ----
(***************************************************************************)
(* Model of the product-data extraction pipeline of aePriceTracker        *)
(* (src/scraper.py): fetch_product_data and the sources it chains         *)
(* (specification Spec), and of the web application and the scheduled      *)
(* price check that call it (src/app.py, src/scheduler.py, src/models.py,  *)
(* src/emailer.py; specification AppSpec, one handler at a time, and       *)
(* specification RaceSpec, price checks side by side).                     *)
(*                                                                         *)
(* Encoding of Python values                                               *)
(*   - a JSON price value is an integer: NoneN (None / absent key),        *)
(*     BadNum (a truthy value float() rejects, e.g. "N/A"), 0 (the number  *)
(*     zero, falsy), or a positive amount (a number or a numeric string);  *)
(*   - a text value is a string: NoneS (None / absent key), "" (falsy) or  *)
(*     a non-empty text;                                                   *)
(*   - a JSON flag is one of "absent", "null", "true", "false"; the        *)
(*     is_available field of a record is "None", "True" or "False";        *)
(*   - a Python exception leaving a function is the value Raise /          *)
(*     RaiseRec, and "no result" (None) is NoRec.                          *)
(***************************************************************************)
EXTENDS Integers, Sequences, FiniteSets, TLC

VARIABLES
  pc,             \* where the call of fetch_product_data stands
  url,            \* its argument
  product_id,     \* the local variable of fetch_product_data
  api_response,   \* what the API request got
  api_data,       \* what fetch_from_api returned
  page_response,  \* what the page request got
  res,            \* the local variable of scrape_page before the final check
  result,         \* what fetch_product_data returned (or that it raised)
  requests,       \* the outbound requests made, in order
  sources_run,    \* the page-based sources called, in order
  products,       \* the rows of the table products
  price_history,  \* the rows of the table price_history, in insertion order
  price_alerts,   \* the rows of the table price_alerts
  next_product,   \* the id the next row of products gets (autoincrement)
  next_alert,     \* the number of alerts created so far, plus one
  sent,           \* the calls of send_price_alert made, in order
  ops,            \* the number of requests and scheduled runs handled
  reply,          \* the answer to the last request (or scheduled run)
  engine,         \* the database of SQLALCHEMY_DATABASE_URI
  jobs            \* the price checks that run side by side, each with its session

\* the state of one call of fetch_product_data
scraper_vars == <<pc, url, product_id, api_response, api_data, page_response,
                  res, result, requests, sources_run>>

\* the database, the mails and the last answer of the application
app_vars == <<products, price_history, price_alerts, next_product, next_alert,
              sent, ops, reply, engine, jobs>>

vars == <<pc, url, product_id, api_response, api_data, page_response,
          res, result, requests, sources_run,
          products, price_history, price_alerts, next_product, next_alert,
          sent, ops, reply, engine, jobs>>

----------------------------------------------------------------------------
(* Bounds of the model *)

\* the longest variants array of an API response
MaxVariants == 2

----------------------------------------------------------------------------
(* Python values *)

NoneN == 0 - 1
BadNum == 0 - 2
NoneS == "None"

\* bool(x) for a price value: None and 0 are falsy
Truthy(x) == x /= NoneN /\ x /= 0

\* bool(s) for a text value: None and "" are falsy
TruthyS(s) == s /= NoneS /\ s /= ""

\* a or b
Or(a, b) == IF Truthy(a) THEN a ELSE b

OrS(a, b) == IF TruthyS(a) THEN a ELSE b

\* float(x) raises ValueError / TypeError on these
FloatRaises(x) == x = BadNum \/ x = NoneN

Max(a, b) == IF a >= b THEN a ELSE b

\* the record types
NoRec == [kind |-> "none"]
RaiseRec == [kind |-> "raise"]

Rec(n, cp, lp, img, av) ==
  [kind |-> "rec", name |-> n, current_price |-> cp, list_price |-> lp,
   image_url |-> img, is_available |-> av]

IsRec(r) == r.kind = "rec"

----------------------------------------------------------------------------
(* extract_product_id: src/scraper.py 33-47 *)

Digits == {"0", "1", "2", "3", "4", "5", "6", "7", "8", "9"}

NoId == <<>>

AllDigits(s, from, to) == \A k \in from..to : s[k] \in Digits

\* r'/(\d{4}_\d{4}_\d{3})' (sep "_") and r'/(\d{4}-\d{4}-\d{3})' (sep "-")
\* matching at position i of s
CodeAt(s, i, sep) ==
  /\ i + 13 <= Len(s)
  /\ s[i] = "/"
  /\ AllDigits(s, i + 1, i + 4)
  /\ s[i + 5] = sep
  /\ AllDigits(s, i + 6, i + 9)
  /\ s[i + 10] = sep
  /\ AllDigits(s, i + 11, i + 13)

Prefix == <<"p", "r", "o", "d", "u", "c", "t", "I", "d", "=">>

\* r'productId=(\d+)' matching at position i of s
QueryAt(s, i) ==
  /\ i + Len(Prefix) <= Len(s)
  /\ SubSeq(s, i, i + Len(Prefix) - 1) = Prefix
  /\ s[i + Len(Prefix)] \in Digits

\* the greedy \d+ starting at position j
RECURSIVE DigitRun(_, _)
DigitRun(s, j) ==
  IF j <= Len(s) /\ s[j] \in Digits THEN <<s[j]>> \o DigitRun(s, j + 1) ELSE <<>>

\* the identifier taken as the URL writes it: no normalisation of the dashes
ReplaceDashNone(s) == s

\* str.replace('-', '_')
ReplaceDash(s) == [k \in 1..Len(s) |-> IF s[k] = "-" THEN "_" ELSE s[k]]

\* whether pattern number k of the list (lines 36-40) matches at position i
MatchAt(s, i, k) ==
  CASE k = 1 -> CodeAt(s, i, "_")
    [] k = 2 -> CodeAt(s, i, "-")
    [] OTHER -> QueryAt(s, i)

\* re.search: the position of the leftmost match, 0 when there is none
FirstPos(s, k) ==
  IF \E i \in 1..Len(s) : MatchAt(s, i, k)
  THEN CHOOSE i \in 1..Len(s) :
         MatchAt(s, i, k) /\ \A j \in 1..(i - 1) : ~MatchAt(s, j, k)
  ELSE 0

\* match.group(1)
Group1(s, i, k) ==
  IF k = 3 THEN DigitRun(s, i + Len(Prefix)) ELSE SubSeq(s, i + 1, i + 13)

\* extract_product_id falling back on an identifier of its own when no
\* pattern matches
extract_product_id_default(u) ==
  IF FirstPos(u, 1) > 0 THEN ReplaceDash(Group1(u, FirstPos(u, 1), 1))
  ELSE IF FirstPos(u, 2) > 0 THEN ReplaceDash(Group1(u, FirstPos(u, 2), 2))
  ELSE IF FirstPos(u, 3) > 0 THEN ReplaceDash(Group1(u, FirstPos(u, 3), 3))
  ELSE <<"0">>

extract_product_id(u) ==
  IF FirstPos(u, 1) > 0 THEN ReplaceDash(Group1(u, FirstPos(u, 1), 1))
  ELSE IF FirstPos(u, 2) > 0 THEN ReplaceDash(Group1(u, FirstPos(u, 2), 2))
  ELSE IF FirstPos(u, 3) > 0 THEN ReplaceDash(Group1(u, FirstPos(u, 3), 3))
  ELSE NoId

----------------------------------------------------------------------------
(* fetch_from_api: src/scraper.py 50-130 *)

\* the running sale_price / list_price of lines 72-88; exc: an exception was
\* raised (float() of a non-numeric value)
Acc(s, l, e) == [sale |-> s, list |-> l, exc |-> e]

\* lines 72-73: the top-level fields
ApiTopLevel(data) ==
  Acc(Or(data.sale_price, data.salePrice),
      Or(Or(data.list_price, data.listPrice), data.price),
      FALSE)

\* lines 75-78: the nested pricing object
ApiPricing(data, acc) ==
  IF data.has_pricing
  THEN Acc(Or(Or(acc.sale, data.pricing.salePrice), data.pricing.sale_price),
           Or(Or(Or(acc.list, data.pricing.listPrice), data.pricing.list_price),
              data.pricing.price),
           FALSE)
  ELSE acc

\* ApiVariant with the comparison of line 88 turned around: the highest sale
\* price is kept
ApiVariantHighestSale(acc, v) ==
  LET vs == Or(v.salePrice, v.sale_price)
      vl == Or(v.listPrice, v.list_price)
      listRaises == Truthy(vl) /\ (vl = BadNum \/ (Truthy(acc.list) /\ acc.list = BadNum))
      list1 == IF Truthy(vl)
               THEN Max(IF Truthy(acc.list) THEN acc.list ELSE 0, vl)
               ELSE acc.list
      saleRaises == Truthy(vs) /\ Truthy(acc.sale) /\ (vs = BadNum \/ acc.sale = BadNum)
      sale1 == IF Truthy(vs)
               THEN (IF ~Truthy(acc.sale) \/ vs > acc.sale THEN vs ELSE acc.sale)
               ELSE acc.sale
  IN  IF acc.exc \/ listRaises \/ saleRaises
      THEN Acc(acc.sale, acc.list, TRUE)
      ELSE Acc(sale1, list1, FALSE)

\* lines 83-88: one variant
ApiVariant(acc, v) ==
  LET vs == Or(v.salePrice, v.sale_price)
      vl == Or(v.listPrice, v.list_price)
      listRaises == Truthy(vl) /\ (vl = BadNum \/ (Truthy(acc.list) /\ acc.list = BadNum))
      list1 == IF Truthy(vl)
               THEN Max(IF Truthy(acc.list) THEN acc.list ELSE 0, vl)
               ELSE acc.list
      saleRaises == Truthy(vs) /\ Truthy(acc.sale) /\ (vs = BadNum \/ acc.sale = BadNum)
      sale1 == IF Truthy(vs)
               THEN (IF ~Truthy(acc.sale) \/ vs < acc.sale THEN vs ELSE acc.sale)
               ELSE acc.sale
  IN  IF acc.exc \/ listRaises \/ saleRaises
      THEN Acc(acc.sale, acc.list, TRUE)
      ELSE Acc(sale1, list1, FALSE)

\* lines 81-88: the loop over data['variants']
RECURSIVE ApiVariants(_, _)
ApiVariants(acc, vs) ==
  IF vs = <<>> THEN acc ELSE ApiVariants(ApiVariant(acc, Head(vs)), Tail(vs))

\* lines 90-100: conversion and reconciliation; the result is an Acc holding
\* current_price (sale) and list_price (list)
ApiReconcile(acc) ==
  LET raises == acc.exc \/ acc.sale = BadNum \/ acc.list = BadNum
      cp0 == acc.sale
      lp0 == IF acc.list /= NoneN THEN acc.list ELSE cp0
      cp1 == IF cp0 = NoneN /\ lp0 /= NoneN THEN lp0 ELSE cp0
      lp1 == IF lp0 /= NoneN /\ cp1 /= NoneN /\ lp0 < cp1 THEN cp1 ELSE lp0
  IN  IF raises THEN Acc(NoneN, NoneN, TRUE) ELSE Acc(cp1, lp1, FALSE)

\* lines 70-100
ApiPrices(data) ==
  ApiReconcile(
    IF data.has_variants /\ Len(data.variants) > 0
    THEN ApiVariants(ApiPricing(data, ApiTopLevel(data)), data.variants)
    ELSE ApiPricing(data, ApiTopLevel(data)))

\* lines 103-107
ApiImage(data) ==
  IF data.has_productImage THEN data.productImage
  ELSE IF data.has_images /\ Len(data.images) > 0 THEN data.images[1]
  ELSE NoneS

\* ApiAvailable with all() in the place of any(): one flag that is false makes
\* the product unavailable
ApiAvailableAll(data) ==
  LET flags == <<data.isAvailable, data.inStock, data.isOrderable, data.buyable>>
      provided == {i \in 1..4 : flags[i] \in {"true", "false"}}
  IN  IF provided /= {}
      THEN (IF \A i \in provided : flags[i] = "true" THEN "True" ELSE "False")
      ELSE "True"

\* lines 112-117: flags that are not None, any() of them
ApiAvailable(data) ==
  LET flags == <<data.isAvailable, data.inStock, data.isOrderable, data.buyable>>
      provided == {i \in 1..4 : flags[i] \in {"true", "false"}}
  IN  IF provided /= {}
      THEN (IF \E i \in provided : flags[i] = "true" THEN "True" ELSE "False")
      ELSE "True"

\* lines 64-125: the body of the try block for a response that arrived
ApiTry(response) ==
  IF response.status_code = 200
  THEN IF response.body /= "json" THEN RaiseRec          \* response.json() / data.get raise
       ELSE LET data == response.data
                name == OrS(data.productName, data.name)
                p    == ApiPrices(data)
            IN  IF p.exc THEN RaiseRec
                ELSE IF TruthyS(name)
                THEN Rec(name, p.sale, p.list, ApiImage(data), ApiAvailable(data))
                ELSE NoRec
  ELSE NoRec

\* fetch_from_api without its try / except
fetch_from_api_uncaught(response) ==
  IF response.outcome = "exception" THEN RaiseRec ELSE ApiTry(response)

\* lines 52-130: requests.get may raise; every Exception is caught and None returned
fetch_from_api(response) ==
  LET r == IF response.outcome = "exception" THEN RaiseRec ELSE ApiTry(response)
  IN  IF r.kind = "raise" THEN NoRec ELSE r

----------------------------------------------------------------------------
(* Framework state: src/scraper.py 241-261 and 344-374 *)

\* the local variable product of extract_initial_state before line 361
Unbound == [is_dict |-> FALSE, bound |-> FALSE]

\* product.get('isAvailable', product.get('inStock', True)): lines 339, 369
StateAvailable(product) ==
  LET flag(f, default) ==
        CASE f = "absent" -> default
          [] f = "null"   -> "None"
          [] f = "true"   -> "True"
          [] OTHER        -> "False"
  IN  flag(product.isAvailable, flag(product.inStock, "True"))

\* product.get('isAvailable', True): line 257
NextAvailable(product) ==
  CASE product.isAvailable = "absent" -> "True"
    [] product.isAvailable = "null"   -> "None"
    [] product.isAvailable = "true"   -> "True"
    [] OTHER                          -> "False"

\* lines 361-370: the record built from data['product']
StateRecord(product) ==
  LET current_price == Or(product.salePrice, product.price)
      list_price    == Or(product.listPrice, current_price)
  IN  IF ~product.is_dict \/ current_price = BadNum \/ list_price = BadNum
      THEN RaiseRec
      ELSE Rec(product.name,
               IF Truthy(current_price) THEN current_price ELSE NoneN,
               IF Truthy(list_price) THEN list_price ELSE NoneN,
               product.image,
               StateAvailable(product))

\* lines 357-372: one pattern match of one script; an exception is caught and
\* the loop continues
StateMatch(m) ==
  LET r == IF ~m.json_ok THEN RaiseRec
           ELSE IF m.has_product THEN StateRecord(m.product)
           ELSE NoRec
  IN  IF r.kind = "raise" THEN NoRec ELSE r

\* lines 344-374: the loop over the scripts and the patterns
RECURSIVE StateScan(_)
StateScan(matches) ==
  IF matches = <<>> THEN NoRec
  ELSE IF IsRec(StateMatch(Head(matches))) THEN StateMatch(Head(matches))
  ELSE StateScan(Tail(matches))

\* lines 249-258: the record built from props.pageProps.product
NextRecord(product) ==
  LET current_price == Or(product.salePrice, product.price)
      list_price    == Or(product.listPrice, current_price)
  IN  IF ~product.is_dict \/ current_price = BadNum \/ list_price = BadNum
      THEN RaiseRec
      ELSE Rec(OrS(product.name, product.productName),
               IF Truthy(current_price) THEN current_price ELSE NoneN,
               IF Truthy(list_price) THEN list_price ELSE NoneN,
               OrS(product.image, product.imageUrl),
               NextAvailable(product))

\* lines 241-261
extract_next_data(soup) ==
  LET script == soup.next_data
      r == IF ~script.json_ok THEN RaiseRec
           ELSE IF script.has_product THEN NextRecord(script.product)
           ELSE NoRec
  IN  IF script.present /\ script.string
      THEN (IF r.kind = "raise" THEN NoRec ELSE r)
      ELSE NoRec

----------------------------------------------------------------------------
(* Structured embed (shoebox): src/scraper.py 264-342 *)

\* lines 275-281: data['data'] (a list, or one object) and data['included']
Candidates(script) == script.data \o script.included

\* line 296
IsMain(item, pid) ==
  pid /= NoId /\ (pid = item.id \/ pid = item.attributes.repositoryId)

\* lines 290-303: the first pass
RECURSIVE Pass1(_, _, _)
Pass1(cands, pid, acc) ==
  IF cands = <<>> THEN acc
  ELSE LET item == Head(cands)
           a == item.attributes
           nm == IF ~TruthyS(acc.best_name)
                 THEN OrS(OrS(a.displayName, a.name), a.productName)
                 ELSE acc.best_name
           img == IF ~TruthyS(acc.best_image)
                  THEN OrS(IF a.pdpImages = <<>> THEN NoneS ELSE a.pdpImages[1], a.image)
                  ELSE acc.best_image
       IN  IF IsMain(item, pid)
           THEN Pass1(Tail(cands), pid,
                      [best_name |-> nm, best_image |-> img,
                       sku_ids |-> acc.sku_ids \cup
                                   {item.skus[k] : k \in 1..Len(item.skus)}])
           ELSE Pass1(Tail(cands), pid, acc)

\* lines 311-316
IsMatch(item, pid, sku_ids) ==
  IF pid /= NoId
  THEN item.id = pid \/ item.attributes.repositoryId = pid \/ item.id \in sku_ids
  ELSE TRUE

\* lines 319-329: one in-scope candidate; sale holds current_price
ShoeboxPrice(acc, a) ==
  LET s == Or(a.salePrice, a.sale_price)
      l == Or(Or(a.listPrice, a.list_price), a.price)
      raises == \/ Truthy(l) /\ (l = BadNum \/ acc.list = BadNum)
                \/ Truthy(s) /\ (s = BadNum \/ acc.sale = BadNum)
      list1 == IF Truthy(l)
               THEN Max(IF Truthy(acc.list) THEN acc.list ELSE 0, l)
               ELSE acc.list
      cur1 == IF Truthy(s)
              THEN (IF ~Truthy(acc.sale) \/ s < acc.sale THEN s ELSE acc.sale)
              ELSE acc.sale
      cur2 == IF ~Truthy(cur1) /\ Truthy(l) THEN l ELSE cur1
  IN  IF acc.exc \/ raises THEN Acc(acc.sale, acc.list, TRUE)
      ELSE Acc(cur2, list1, FALSE)

\* lines 306-329: the second pass
RECURSIVE Pass2(_, _, _, _)
Pass2(cands, pid, sku_ids, acc) ==
  IF cands = <<>> THEN acc
  ELSE IF IsMatch(Head(cands), pid, sku_ids)
  THEN Pass2(Tail(cands), pid, sku_ids, ShoeboxPrice(acc, Head(cands).attributes))
  ELSE Pass2(Tail(cands), pid, sku_ids, acc)

\* lines 334-340: the dict display reads the local variable product
ShoeboxRecord(best_name, current_price, list_price, best_image, product) ==
  IF ~product.bound THEN RaiseRec      \* UnboundLocalError
  ELSE Rec(best_name, Or(current_price, list_price), Or(list_price, current_price),
           best_image, StateAvailable(product))

\* lines 269-342: one shoebox script; product is the function's local variable
ShoeboxScript(script, pid, product) ==
  LET p1 == Pass1(Candidates(script), pid,
                  [best_name |-> NoneS, best_image |-> NoneS, sku_ids |-> {}])
      p2 == Pass2(Candidates(script), pid, p1.sku_ids, Acc(NoneN, NoneN, FALSE))
      r  == IF ~script.json_ok \/ p2.exc THEN RaiseRec
            ELSE IF TruthyS(p1.best_name) /\ (Truthy(p2.sale) \/ Truthy(p2.list))
            THEN ShoeboxRecord(p1.best_name, p2.sale, p2.list, p1.best_image, product)
            ELSE NoRec
  IN  IF ~script.string THEN NoRec
      ELSE IF r.kind = "raise" THEN NoRec      \* except: continue
      ELSE r

\* lines 267-342: the loop over the shoebox scripts; nothing assigns product
\* before line 361
RECURSIVE ShoeboxScan(_, _)
ShoeboxScan(scripts, pid) ==
  IF scripts = <<>> THEN NoRec
  ELSE IF IsRec(ShoeboxScript(Head(scripts), pid, Unbound))
  THEN ShoeboxScript(Head(scripts), pid, Unbound)
  ELSE ShoeboxScan(Tail(scripts), pid)

\* lines 264-374
extract_initial_state(soup, pid) ==
  IF IsRec(ShoeboxScan(soup.shoebox, pid)) THEN ShoeboxScan(soup.shoebox, pid)
  ELSE StateScan(soup.state)

----------------------------------------------------------------------------
(* Semantic markup (JSON-LD): src/scraper.py 169-238 *)

\* lines 199-205: the first item of the array whose @type is Product; 0: none
FirstProduct(nodes) ==
  IF \E i \in 1..Len(nodes) : nodes[i].type = "Product"
  THEN CHOOSE i \in 1..Len(nodes) :
         nodes[i].type = "Product" /\ \A j \in 1..(i - 1) : nodes[j].type /= "Product"
  ELSE 0

\* float(offer.get('price', 0)): lines 217, 219
OfferPrice(offer) == IF offer.has_price THEN offer.price ELSE 0

\* lines 210-238: the Product node
ParseProduct(node) ==
  LET name == node.name
      offers == node.offers
      \* lines 216-219
      priceRaises ==
        \/ node.offers_kind = "list" /\ Len(offers) > 0 /\ FloatRaises(OfferPrice(offers[1]))
        \/ node.offers_kind = "dict" /\ FloatRaises(OfferPrice(offers[1]))
      price == IF node.offers_kind = "absent" THEN 0 ELSE OfferPrice(offers[1])
      \* line 227: offers.get of a list or of None raises AttributeError
      getRaises == node.offers_kind \in {"list", "null"}
      availability == IF node.offers_kind = "dict" THEN offers[1].availability ELSE NoneS
      is_available ==
        IF availability = "http://schema.org/OutOfStock" \/ availability = "OutOfStock"
        THEN "False" ELSE "True"
  IN  IF priceRaises \/ getRaises THEN RaiseRec
      ELSE Rec(name, price, price, node.image, is_available)

\* lines 196-238
parse_json_ld(data) ==
  IF data.is_list
  THEN IF FirstProduct(data.nodes) = 0 THEN NoRec
       ELSE ParseProduct(data.nodes[FirstProduct(data.nodes)])
  ELSE IF data.nodes[1].type /= "Product" THEN NoRec
       ELSE ParseProduct(data.nodes[1])

\* lines 174-181: the scripts found by class name; only a JSONDecodeError is
\* caught, and the first script that decodes ends the search with its result
RECURSIVE LdClassScan(_)
LdClassScan(scripts) ==
  IF scripts = <<>> THEN [found |-> FALSE, r |-> NoRec]
  ELSE IF Head(scripts).string /\ Head(scripts).json_ok
  THEN [found |-> TRUE, r |-> parse_json_ld(Head(scripts).data)]
  ELSE LdClassScan(Tail(scripts))

\* lines 184-191: the scripts of type application/ld+json; every exception is
\* caught, and a result without a name is passed over
RECURSIVE LdTypeScan(_)
LdTypeScan(scripts) ==
  IF scripts = <<>> THEN NoRec
  ELSE LET script == Head(scripts)
           r == IF ~script.string \/ ~script.json_ok THEN RaiseRec
                ELSE parse_json_ld(script.data)
       IN  IF IsRec(r) /\ TruthyS(r.name) THEN r ELSE LdTypeScan(Tail(scripts))

\* lines 169-193
extract_json_ld(soup) ==
  IF LdClassScan(soup.ld_class).found THEN LdClassScan(soup.ld_class).r
  ELSE LdTypeScan(soup.ld_type)

----------------------------------------------------------------------------
(* HTML heuristic: src/scraper.py 377-471 *)

\* lines 466-471: False when an out-of-stock marker is on the page
check_html_unavailability(soup) == ~soup.oos

\* lines 389-393: the first selector whose element has text
RECURSIVE HtmlName(_)
HtmlName(texts) ==
  IF texts = <<>> THEN NoneS
  ELSE IF TruthyS(Head(texts)) THEN Head(texts)
  ELSE HtmlName(Tail(texts))

\* lines 409-414, 446-449: '$' in text and re.search(r'\$(\d+\.?\d*)', text)
PriceOf(text) == IF text.dollar /\ text.amount /= NoneN THEN text.amount ELSE NoneN

\* lines 408-415: the elements of one selector, up to the first price
RECURSIVE HtmlElems(_, _)
HtmlElems(elems, price) ==
  IF elems = <<>> THEN price
  ELSE IF PriceOf(Head(elems)) /= NoneN THEN PriceOf(Head(elems))
  ELSE HtmlElems(Tail(elems), price)

\* lines 406-417: the selectors, up to the first truthy price
RECURSIVE HtmlPrice(_, _)
HtmlPrice(selectors, price) ==
  IF selectors = <<>> THEN price
  ELSE IF Truthy(HtmlElems(Head(selectors), price))
  THEN HtmlElems(Head(selectors), price)
  ELSE HtmlPrice(Tail(selectors), HtmlElems(Head(selectors), price))

\* lines 444-450: the first list-price element holding a price
RECURSIVE HtmlListPrice(_)
HtmlListPrice(elems) ==
  IF elems = <<>> THEN NoneN
  ELSE IF PriceOf(Head(elems)) /= NoneN THEN PriceOf(Head(elems))
  ELSE HtmlListPrice(Tail(elems))

\* extract_from_html without lines 452-453: list_price stays None when no
\* list-price element holds a price
extract_from_html_no_default(soup) ==
  LET name  == HtmlName(soup.name_texts)
      price == HtmlPrice(soup.price_elems, NoneN)
      lp0   == HtmlListPrice(soup.list_elems)
  IN  IF TruthyS(name)
      THEN Rec(name, price, lp0, soup.image,
               IF check_html_unavailability(soup) THEN "True" ELSE "False")
      ELSE NoRec

\* lines 377-464
extract_from_html(soup) ==
  LET name  == HtmlName(soup.name_texts)
      price == HtmlPrice(soup.price_elems, NoneN)
      lp0   == HtmlListPrice(soup.list_elems)
      list_price == IF ~Truthy(lp0) THEN price ELSE lp0
  IN  IF TruthyS(name)
      THEN Rec(name, price, list_price, soup.image,
               IF check_html_unavailability(soup) THEN "True" ELSE "False")
      ELSE NoRec

----------------------------------------------------------------------------
(* scrape_page: src/scraper.py 133-166 *)

\* the final check assigning what the page says instead of only downgrading
FinalCheckAssign(r, sp) ==
  IF IsRec(r)
  THEN [r EXCEPT !.is_available = IF check_html_unavailability(sp) THEN "True" ELSE "False"]
  ELSE r

\* lines 157-160: the final availability check
FinalCheck(r, sp) ==
  IF IsRec(r) /\ r.is_available /= "False" /\ ~check_html_unavailability(sp)
  THEN [r EXCEPT !.is_available = "False"]
  ELSE r

\* scrape_page without its except clause
ScrapeNoCatch(r) == r

\* lines 164-166: except Exception: return None
ScrapeCatch(r) == IF r.kind = "raise" THEN NoRec ELSE r

\* the chain with the JSON-LD source called before extract_initial_state
PageChainJsonLdFirst(soup, pid) ==
  LET a == extract_initial_state(soup, pid)
      b == extract_json_ld(soup)
      c == extract_next_data(soup)
      d == extract_from_html(soup)
  IN  IF b.kind /= "none" THEN [r |-> b, ran |-> <<"json_ld">>]
      ELSE IF a.kind /= "none" THEN [r |-> a, ran |-> <<"json_ld", "initial_state">>]
      ELSE IF c.kind /= "none"
      THEN [r |-> c, ran |-> <<"json_ld", "initial_state", "next_data">>]
      ELSE [r |-> d, ran |-> <<"json_ld", "initial_state", "next_data", "html">>]

\* lines 139-155: the sources in order, the first result that is not empty
\* (a non-empty dict) is taken; an exception leaves the chain
PageChain(soup, pid) ==
  LET a == extract_initial_state(soup, pid)
      b == extract_json_ld(soup)
      c == extract_next_data(soup)
      d == extract_from_html(soup)
  IN  IF a.kind /= "none" THEN [r |-> a, ran |-> <<"initial_state">>]
      ELSE IF b.kind /= "none" THEN [r |-> b, ran |-> <<"initial_state", "json_ld">>]
      ELSE IF c.kind /= "none"
      THEN [r |-> c, ran |-> <<"initial_state", "json_ld", "next_data">>]
      ELSE [r |-> d, ran |-> <<"initial_state", "json_ld", "next_data", "html">>]

\* lines 135-166; response.status_code is never read
scrape_page(response, pid) ==
  LET chain == PageChain(response.soup, pid)
      r == IF response.outcome = "exception" THEN RaiseRec
           ELSE IF chain.r.kind = "raise" THEN RaiseRec
           ELSE FinalCheck(chain.r, response.soup)
  IN  ScrapeCatch(r)

\* a page request that is made again after a failure
PageRequestsRetry(response) ==
  IF response.outcome = "exception" THEN <<"page", "page">> ELSE <<"page">>

\* line 136: the one requests.get of scrape_page; no retry
PageRequests(response) == <<"page">>

\* line 62: the one requests.get of fetch_from_api; no retry
ApiRequests(response) == <<"api">>

\* the page-based sources scrape_page called on the response
SourcesRun(response, pid) ==
  IF response.outcome = "exception" THEN <<>> ELSE PageChain(response.soup, pid).ran

\* the record the chain produced, before the final availability check
BeforeCheck(response, pid) ==
  IF response.outcome = "exception" THEN NoRec
  ELSE ScrapeCatch(PageChain(response.soup, pid).r)

----------------------------------------------------------------------------
(* The inputs: URLs, API responses and page responses *)

UrlUnderscore ==
  <<"/", "p", "/", "0", "5", "7", "7", "_", "9", "0", "9", "8", "_", "9", "0", "0">>
UrlDash ==
  <<"/", "p", "/", "0", "5", "7", "7", "-", "9", "0", "9", "8", "-", "9", "0", "0">>
UrlQuery ==
  <<"/", "p", "?", "p", "r", "o", "d", "u", "c", "t", "I", "d", "=", "4", "2">>
UrlPlain == <<"/", "p", "/", "h", "o", "o", "d", "i", "e">>
\* a dash elsewhere in the path, and a path that goes on after the code
UrlNamed ==
  <<"/", "a", "-", "b", "/", "0", "5", "7", "7", "-", "9", "0", "9", "8", "-", "9", "0", "0",
    "/", "x">>
\* a code written with both separators: no pattern matches it
UrlMixed ==
  <<"/", "p", "/", "0", "5", "7", "7", "_", "9", "0", "9", "8", "-", "9", "0", "0">>

Urls == {UrlUnderscore, UrlDash, UrlQuery, UrlPlain, UrlNamed, UrlMixed}

TargetId == <<"0", "5", "7", "7", "_", "9", "0", "9", "8", "_", "9", "0", "0">>
SkuId == <<"s", "k", "u", "1">>
OtherId == <<"o", "t", "h", "e", "r">>

\* a JSON object without any of the keys fetch_from_api reads
NoPricing ==
  [salePrice |-> NoneN, sale_price |-> NoneN, listPrice |-> NoneN,
   list_price |-> NoneN, price |-> NoneN]

EmptyData ==
  [productName |-> NoneS, name |-> NoneS,
   sale_price |-> NoneN, salePrice |-> NoneN,
   list_price |-> NoneN, listPrice |-> NoneN, price |-> NoneN,
   has_pricing |-> FALSE, pricing |-> NoPricing,
   has_variants |-> FALSE, variants |-> <<>>,
   has_productImage |-> FALSE, productImage |-> NoneS,
   has_images |-> FALSE, images |-> <<>>,
   isAvailable |-> "absent", inStock |-> "absent",
   isOrderable |-> "absent", buyable |-> "absent"]

NamedData == [EmptyData EXCEPT !.productName = "Crew Hoodie"]

Variant(vs, vl) ==
  [salePrice |-> vs, sale_price |-> NoneN, listPrice |-> vl, list_price |-> NoneN]

VariantSet == {Variant(vs, vl) : vs \in {NoneN, 35, 40}, vl \in {NoneN, 60, 65}}

VariantSeqs == UNION {[1..n -> VariantSet] : n \in 0..MaxVariants}

\* top-level prices and a variants array
DataVariants ==
  {[NamedData EXCEPT !.salePrice = s, !.listPrice = l,
                     !.has_variants = TRUE, !.variants = vs] :
     s \in {NoneN, 0, 38, 70}, l \in {NoneN, 0, 30, 62}, vs \in VariantSeqs}

\* the alternative keys of the top-level prices
DataKeys ==
  {[NamedData EXCEPT !.sale_price = a, !.salePrice = b,
                     !.list_price = c, !.listPrice = d, !.price = e] :
     a \in {NoneN, 0, 1}, b \in {NoneN, 2}, c \in {NoneN, 0, 3},
     d \in {NoneN, 2}, e \in {NoneN, 1}}

\* the nested pricing object
DataPricing ==
  {[NamedData EXCEPT !.salePrice = s, !.listPrice = l, !.has_pricing = TRUE,
                     !.pricing = [salePrice |-> a, sale_price |-> b,
                                  listPrice |-> c, list_price |-> d, price |-> e]] :
     s \in {NoneN, 2}, l \in {NoneN, 2},
     a \in {NoneN, 1}, b \in {NoneN, 3}, c \in {NoneN, 1}, d \in {NoneN, 3},
     e \in {NoneN, 2}}

\* the availability flags
DataFlags ==
  {[NamedData EXCEPT !.salePrice = 1, !.listPrice = 2, !.isAvailable = f1,
                     !.inStock = f2, !.isOrderable = f3, !.buyable = f4] :
     f1 \in {"absent", "null", "true", "false"}, f2 \in {"absent", "true", "false"},
     f3 \in {"absent", "true", "false"}, f4 \in {"absent", "true", "false"}}

\* the name keys
DataNames ==
  {[EmptyData EXCEPT !.productName = a, !.name = b, !.salePrice = s] :
     a \in {NoneS, "", "Crew Hoodie"}, b \in {NoneS, "Hoodie"}, s \in {NoneN, 2}}

\* the image keys
DataImages ==
  {[NamedData EXCEPT !.salePrice = 2, !.has_productImage = i, !.productImage = "p.jpg",
                     !.has_images = j, !.images = imgs] :
     i \in BOOLEAN, j \in BOOLEAN, imgs \in {<<>>, <<"i.jpg", "j.jpg">>}}

\* values float() rejects, at the top level or in a variant
DataBad ==
  {[NamedData EXCEPT !.salePrice = q[1], !.listPrice = q[2],
                     !.has_variants = TRUE, !.variants = <<Variant(q[3], q[4])>>] :
     q \in {<<BadNum, 2, 1, NoneN>>, <<NoneN, BadNum, 1, NoneN>>,
            <<NoneN, 2, BadNum, NoneN>>, <<NoneN, 2, 1, BadNum>>}}

ApiData == DataVariants \cup DataKeys \cup DataPricing \cup DataFlags
             \cup DataNames \cup DataImages \cup DataBad

\* outcome "exception": requests.get raised (timeout, connection error);
\* body "not_json": response.json() raises; "not_dict": the JSON is no object
ApiResponses ==
  {[outcome |-> "exception", status_code |-> 0, body |-> "none", data |-> EmptyData]}
    \cup {[outcome |-> "response", status_code |-> c, body |-> "json", data |-> NamedData] :
            c \in {404, 500}}
    \cup {[outcome |-> "response", status_code |-> 200, body |-> b, data |-> EmptyData] :
            b \in {"not_json", "not_dict"}}
    \cup {[outcome |-> "response", status_code |-> 200, body |-> "json", data |-> d] :
            d \in ApiData}

\* the scripts and elements of a page that scrape_page looks at
Attrs(repo, nm, s, l) ==
  [repositoryId |-> repo, displayName |-> nm, name |-> NoneS, productName |-> NoneS,
   pdpImages |-> <<>>, image |-> NoneS,
   salePrice |-> s, sale_price |-> NoneN,
   listPrice |-> l, list_price |-> NoneN, price |-> NoneN]

Item(id, attrs, skus) == [id |-> id, attributes |-> attrs, skus |-> skus]

Shoebox(ok, data, included) ==
  [string |-> TRUE, json_ok |-> ok, data |-> data, included |-> included]

\* a product item (matched by id or by repositoryId) with or without a SKU item
ShoeboxScripts ==
  {Shoebox(TRUE, <<Item(i, Attrs(r, nm, s, l), sk)>>, inc) :
     i \in {TargetId, OtherId}, r \in {NoId}, nm \in {NoneS, "Shoebox Tee"},
     s \in {NoneN, 2}, l \in {NoneN, 3},
     sk \in {<<>>, <<SkuId>>},
     inc \in {<<>>, <<Item(SkuId, Attrs(NoId, NoneS, 1, 4), <<>>)>>}}
  \cup {Shoebox(TRUE, <<Item(OtherId, Attrs(TargetId, "Shoebox Tee", s, 3), <<>>)>>, <<>>) :
          s \in {NoneN, 2, BadNum}}
  \cup {Shoebox(FALSE, <<>>, <<>>)}

\* the script the priority scenario uses: the product with a name and prices
ShoeboxMatch ==
  Shoebox(TRUE, <<Item(TargetId, Attrs(NoId, "Shoebox Tee", 2, 3), <<SkuId>>)>>,
          <<Item(SkuId, Attrs(NoId, NoneS, 1, 4), <<>>)>>)

Product(nm, s, p, l, a, i) ==
  [is_dict |-> TRUE, bound |-> TRUE, name |-> nm, productName |-> NoneS,
   salePrice |-> s, price |-> p, listPrice |-> l,
   image |-> NoneS, imageUrl |-> NoneS, isAvailable |-> a, inStock |-> i]

FlagVals == {"absent", "null", "true", "false"}

\* a framework-state product object
Products ==
  {Product(nm, s, p, l, "absent", "absent") :
     nm \in {NoneS, "State Tee"}, s \in {NoneN, 0, 2, 3}, p \in {NoneN, 2},
     l \in {NoneN, 0, 1, 3}}
  \cup {Product("State Tee", 2, NoneN, 3, a, i) : a \in FlagVals, i \in FlagVals}
  \cup {Product("State Tee", s, NoneN, l, "absent", "absent") :
          s \in {2, BadNum}, l \in {3, BadNum}}
  \cup {[Product("State Tee", 2, NoneN, 3, "absent", "absent") EXCEPT !.is_dict = FALSE]}
  \cup {[Product(NoneS, 2, NoneN, 3, "absent", "absent") EXCEPT !.productName = "Next Tee"]}

StateProduct == Product("State Tee", 2, NoneN, 3, "absent", "absent")

Match(ok, has, product) == [json_ok |-> ok, has_product |-> has, product |-> product]

NoNext == [present |-> FALSE, string |-> FALSE, json_ok |-> FALSE,
           has_product |-> FALSE, product |-> StateProduct]

NextScript(ok, has, product) ==
  [present |-> TRUE, string |-> TRUE, json_ok |-> ok, has_product |-> has,
   product |-> product]

Offer(has, price, av) == [has_price |-> has, price |-> price, availability |-> av]

Node(type, nm, kind, offers) ==
  [type |-> type, name |-> nm, offers_kind |-> kind, offers |-> offers, image |-> NoneS]

Availabilities ==
  {NoneS, "OutOfStock", "http://schema.org/OutOfStock", "https://schema.org/OutOfStock",
   "http://schema.org/InStock"}

Offers ==
  {Offer(TRUE, 2, av) : av \in Availabilities}
  \cup {Offer(has, p, NoneS) : has \in BOOLEAN, p \in {NoneN, BadNum, 0}}

LdNodes ==
  {Node("Product", nm, "dict", <<o>>) : nm \in {NoneS, "LD Tee"}, o \in Offers}
  \cup {Node("Product", "LD Tee", "list", os) :
          os \in {<<>>, <<Offer(TRUE, 2, "OutOfStock")>>,
                  <<Offer(TRUE, 2, NoneS), Offer(TRUE, 3, NoneS)>>}}
  \cup {Node("Product", "LD Tee", k, <<>>) : k \in {"absent", "null"}}
  \cup {Node("Offer", "LD Tee", "absent", <<>>)}

LdScript(ok, list, nodes) ==
  [string |-> TRUE, json_ok |-> ok, data |-> [is_list |-> list, nodes |-> nodes]]

LdScripts ==
  {LdScript(TRUE, FALSE, <<n>>) : n \in LdNodes}
  \cup {LdScript(TRUE, TRUE, ns) :
          ns \in {<<>>, <<Node("Offer", "x", "absent", <<>>)>>,
                  <<Node("Offer", "x", "absent", <<>>),
                    Node("Product", "LD Tee", "dict", <<Offer(TRUE, 2, NoneS)>>)>>}}
  \cup {LdScript(FALSE, FALSE, <<Node("Offer", "x", "absent", <<>>)>>)}

LdProduct == LdScript(TRUE, FALSE, <<Node("Product", "LD Tee", "dict", <<Offer(TRUE, 2, NoneS)>>)>>)

Text(dollar, amount) == [dollar |-> dollar, amount |-> amount]

\* the text of a price element: no '$', '$' without digits, '$' and an amount
Texts == {Text(FALSE, NoneN), Text(FALSE, 5), Text(TRUE, NoneN),
          Text(TRUE, 0), Text(TRUE, 2), Text(TRUE, 3)}

EmptySoup ==
  [shoebox |-> <<>>, state |-> <<>>, ld_class |-> <<>>, ld_type |-> <<>>,
   next_data |-> NoNext, name_texts |-> <<>>, price_elems |-> <<>>,
   list_elems |-> <<>>, image |-> NoneS, oos |-> FALSE]

HtmlSoup == [EmptySoup EXCEPT !.name_texts = <<"H1 Tee">>,
                              !.price_elems = <<<<Text(TRUE, 2)>>>>]

\* pages holding several sources at once
SoupsMixed ==
  {[EmptySoup EXCEPT !.shoebox = sb, !.ld_class = lc, !.ld_type = lt, !.state = st,
                     !.next_data = nx, !.name_texts = nt,
                     !.price_elems = <<<<Text(TRUE, 2)>>>>, !.oos = o] :
     sb \in {<<>>, <<ShoeboxMatch>>},
     lc \in {<<>>, <<LdProduct>>}, lt \in {<<>>, <<LdProduct>>},
     st \in {<<>>, <<Match(TRUE, TRUE, StateProduct)>>},
     nx \in {NoNext, NextScript(TRUE, TRUE, StateProduct)},
     nt \in {<<>>, <<"H1 Tee">>}, o \in BOOLEAN}

\* pages with shoebox scripts
SoupsShoebox ==
  {[base EXCEPT !.shoebox = sb] :
     base \in {EmptySoup, HtmlSoup},
     sb \in {<<s>> : s \in ShoeboxScripts}
            \cup {<<Shoebox(FALSE, <<>>, <<>>), ShoeboxMatch>>}}

\* pages with JSON-LD scripts, found by class or by type
SoupsLd ==
  {[base EXCEPT !.ld_class = lc, !.oos = o] :
     base \in {EmptySoup, HtmlSoup}, o \in BOOLEAN,
     lc \in {<<s>> : s \in LdScripts} \cup {<<LdScript(FALSE, FALSE, <<>>), LdProduct>>}}
  \cup
  {[base EXCEPT !.ld_type = lt, !.oos = o] :
     base \in {EmptySoup, HtmlSoup}, o \in BOOLEAN,
     lt \in {<<s>> : s \in LdScripts}
            \cup {<<s, LdProduct>> : s \in LdScripts}}

\* pages with a framework state: a window assignment or __NEXT_DATA__
SoupsState ==
  {[EmptySoup EXCEPT !.state = st, !.oos = o] :
     o \in BOOLEAN,
     st \in {<<Match(TRUE, TRUE, p)>> : p \in Products}
            \cup {<<Match(ok, has, StateProduct), Match(TRUE, TRUE, StateProduct)>> :
                    ok \in BOOLEAN, has \in BOOLEAN}
            \cup {<<Match(TRUE, TRUE, Product("State Tee", BadNum, NoneN, 3, "absent", "absent")),
                    Match(TRUE, FALSE, StateProduct)>>}}
  \cup
  {[base EXCEPT !.next_data = nx, !.oos = o] :
     base \in {EmptySoup, HtmlSoup}, o \in BOOLEAN,
     nx \in {NextScript(TRUE, TRUE, p) : p \in Products}
            \cup {NextScript(FALSE, FALSE, StateProduct),
                  NextScript(TRUE, FALSE, StateProduct),
                  [NextScript(TRUE, TRUE, StateProduct) EXCEPT !.string = FALSE]}}

\* pages with HTML elements only
SoupsHtml ==
  {[EmptySoup EXCEPT !.name_texts = nt, !.price_elems = pe, !.list_elems = le,
                     !.image = img, !.oos = o] :
     nt \in {<<>>, <<"", "H1 Tee">>, <<"Title Tee", "H1 Tee">>},
     pe \in {<<>>} \cup {<<<<t>>>> : t \in Texts}
            \cup {<<<<Text(TRUE, 0)>>, <<t>>>> : t \in {Text(FALSE, NoneN), Text(TRUE, 2)}}
            \cup {<<<<Text(FALSE, NoneN), Text(TRUE, 3)>>, <<Text(TRUE, 2)>>>>},
     le \in {<<>>} \cup {<<t>> : t \in Texts} \cup {<<Text(TRUE, NoneN), Text(TRUE, 1)>>},
     img \in {"tee.jpg"}, o \in BOOLEAN}

Soups == SoupsMixed \cup SoupsShoebox \cup SoupsLd \cup SoupsState \cup SoupsHtml

\* outcome "exception": requests.get raised (timeout, connection error)
PageResponses ==
  {[outcome |-> "exception", status_code |-> 0, soup |-> EmptySoup]}
    \cup {[outcome |-> "response", status_code |-> c, soup |-> sp] :
            c \in {200, 404}, sp \in Soups}

----------------------------------------------------------------------------
(* fetch_product_data: src/scraper.py 14-30 *)

NoApiResponse ==
  [outcome |-> "unsent", status_code |-> 0, body |-> "none", data |-> EmptyData]

NoPageResponse == [outcome |-> "unsent", status_code |-> 0, soup |-> EmptySoup]

Pending == [kind |-> "pending"]

\* the application before any request: an empty database
NoResponse == [op |-> "none", status |-> 0, message |-> "", fetched |-> FALSE, product |-> 0,
               prices |-> <<>>, record |-> NoRec]

AppIdle ==
  /\ products = {}
  /\ price_history = <<>>
  /\ price_alerts = {}
  /\ next_product = 1
  /\ next_alert = 1
  /\ sent = <<>>
  /\ ops = 0
  /\ reply = NoResponse
  /\ engine = "sqlite"
  /\ jobs = <<>>

Init ==
  /\ AppIdle
  /\ pc = "start"
  /\ url \in Urls
  /\ product_id = NoId
  /\ api_response = NoApiResponse
  /\ api_data = Pending
  /\ page_response = NoPageResponse
  /\ res = Pending
  /\ result = Pending
  /\ requests = <<>>
  /\ sources_run = <<>>

\* lines 21-23
ExtractProductId ==
  /\ pc = "start"
  /\ product_id' = extract_product_id(url)
  /\ pc' = IF extract_product_id(url) /= NoId THEN "api" ELSE "page"
  /\ UNCHANGED <<url, api_response, api_data, page_response, res, result,
                 requests, sources_run>>
  /\ UNCHANGED app_vars

\* lines 25-27: the API request and what fetch_from_api makes of its response
FetchFromApi ==
  /\ pc = "api"
  /\ \E response \in ApiResponses :
       /\ api_response' = response
       /\ requests' = requests \o ApiRequests(response)
       /\ api_data' = fetch_from_api(response)
       /\ IF fetch_from_api(response).kind = "none"
          THEN pc' = "page" /\ result' = result
          ELSE pc' = "done" /\ result' = fetch_from_api(response)
  /\ UNCHANGED <<url, product_id, page_response, res, sources_run>>
  /\ UNCHANGED app_vars

\* line 30: the page request and scrape_page on its response
ScrapePage ==
  /\ pc = "page"
  /\ \E response \in PageResponses :
       /\ page_response' = response
       /\ requests' = requests \o PageRequests(response)
       /\ sources_run' = SourcesRun(response, product_id)
       /\ res' = BeforeCheck(response, product_id)
       /\ result' = scrape_page(response, product_id)
  /\ pc' = "done"
  /\ UNCHANGED <<url, product_id, api_response, api_data>>
  /\ UNCHANGED app_vars

Next == ExtractProductId \/ FetchFromApi \/ ScrapePage

Spec == Init /\ [][Next]_vars

----------------------------------------------------------------------------
(* What the claims speak of *)

Done == pc = "done"

\* the API request was made and fetch_from_api gave no result, or no
\* identifier was extracted and the API was not asked
ApiGaveNothing == api_data.kind /= "rec"

PageArrived == page_response.outcome = "response"

page_soup == page_response.soup

\* the product items of the shoebox scripts of the page that match the
\* identifier and have a name and a price
ShoeboxProducts ==
  {it \in UNION {{sc.data[k] : k \in 1..Len(sc.data)} :
                   sc \in {page_soup.shoebox[i] : i \in 1..Len(page_soup.shoebox)}} :
     /\ product_id /= NoId
     /\ it.id = product_id \/ it.attributes.repositoryId = product_id
     /\ it.attributes.displayName \notin {NoneS, ""}
     /\ it.attributes.salePrice \in 1..100 \/ it.attributes.listPrice \in 1..100}

\* the names of the JSON-LD Product blocks of the page
LdScriptsOfPage ==
  {page_soup.ld_class[i] : i \in 1..Len(page_soup.ld_class)}
    \cup {page_soup.ld_type[i] : i \in 1..Len(page_soup.ld_type)}

LdProductNames ==
  {n.name : n \in {nd \in UNION {{sc.data.nodes[k] : k \in 1..Len(sc.data.nodes)} :
                                  sc \in {x \in LdScriptsOfPage : x.json_ok}} :
                     nd.type = "Product"}}

\* C1: when the API source gives no result and the fetched page holds a
\* shoebox block with a product that matches the identifier and has a name
\* and a price, and a JSON-LD Product block with another name, the record
\* returned carries the shoebox name.
C1_ShoeboxNameWins ==
  (/\ Done /\ ApiGaveNothing /\ PageArrived
   /\ ShoeboxProducts /= {}
   /\ \E n \in LdProductNames :
        \A it \in ShoeboxProducts : n /= it.attributes.displayName)
  => /\ IsRec(result)
     /\ \E it \in ShoeboxProducts : result.name = it.attributes.displayName

\* C2: every record returned has list_price >= current_price whenever both
\* prices are present.
C2_ListAtLeastCurrent ==
  (Done /\ IsRec(result) /\ result.current_price /= NoneN /\ result.list_price /= NoneN)
  => result.list_price >= result.current_price

\* the source whose record scrape_page took
PageSource == IF sources_run = <<>> THEN "none" ELSE sources_run[Len(sources_run)]

\* the field holds an amount
Present(x) == x > 0

\* whether the raw data of the source that produced the record carries a
\* sale/current price, and whether it carries a list price
RawHasCurrent ==
  CASE requests = <<"api">> ->
         \/ Present(api_response.data.sale_price) \/ Present(api_response.data.salePrice)
         \/ /\ api_response.data.has_pricing
            /\ \/ Present(api_response.data.pricing.salePrice)
               \/ Present(api_response.data.pricing.sale_price)
         \/ \E i \in 1..Len(api_response.data.variants) :
              \/ Present(api_response.data.variants[i].salePrice)
              \/ Present(api_response.data.variants[i].sale_price)
    [] PageSource = "next_data" ->
         \/ Present(page_soup.next_data.product.salePrice)
         \/ Present(page_soup.next_data.product.price)
    [] PageSource = "initial_state" /\ Len(page_soup.state) = 1 ->
         \/ Present(page_soup.state[1].product.salePrice)
         \/ Present(page_soup.state[1].product.price)
    [] OTHER -> FALSE

RawHasList ==
  CASE requests = <<"api">> ->
         \/ Present(api_response.data.list_price) \/ Present(api_response.data.listPrice)
         \/ Present(api_response.data.price)
         \/ /\ api_response.data.has_pricing
            /\ \/ Present(api_response.data.pricing.listPrice)
               \/ Present(api_response.data.pricing.list_price)
               \/ Present(api_response.data.pricing.price)
         \/ \E i \in 1..Len(api_response.data.variants) :
              \/ Present(api_response.data.variants[i].listPrice)
              \/ Present(api_response.data.variants[i].list_price)
    [] PageSource = "next_data" -> Present(page_soup.next_data.product.listPrice)
    [] PageSource = "initial_state" /\ Len(page_soup.state) = 1 ->
         Present(page_soup.state[1].product.listPrice)
    [] OTHER -> FALSE

\* C3: if the raw data of the source carries exactly one of the sale/current
\* price and the list price, the record returned has current_price equal to
\* list_price, neither left empty.
C3_OnePriceFillsBoth ==
  (Done /\ IsRec(result) /\ (RawHasCurrent /= RawHasList))
  => /\ result.current_price = result.list_price
     /\ result.current_price /= NoneN

\* an exception was raised inside scrape_page (and caught there)
RaisedInPage == PageArrived /\ PageChain(page_soup, product_id).r.kind = "raise"

\* C4: fetch_product_data raises nothing: whatever the API and the page
\* answer, no exception leaves fetch_from_api or fetch_product_data, the call
\* can always go on until it has returned, what it returns is a record or the
\* empty result, and for empty page markup it is the empty result.
C4_NeverRaises ==
  /\ api_data.kind /= "raise"
  /\ result.kind /= "raise"
  /\ ~Done => ENABLED Next
  /\ Done => result.kind \in {"rec", "none"}
  /\ (Done /\ PageArrived /\ page_soup = EmptySoup) => result = NoRec

\* a JSON-LD block whose parsing raised inside scrape_page, after an API
\* request that raised too
C4_Witness ==
  /\ Done /\ RaisedInPage
  /\ api_response.outcome = "exception"
  /\ result = NoRec

\* C5: at most two outbound requests per call: at most one API request, made
\* only when an identifier was extracted, then at most one page request, made
\* only after the API source gave no result; none is repeated.
C5_AtMostTwoRequests ==
  /\ requests \in {<<>>, <<"api">>, <<"page">>, <<"api", "page">>}
  /\ (requests /= <<>> /\ requests[1] = "api") => product_id /= NoId
  /\ requests = <<"api", "page">> => api_data = NoRec
  /\ requests = <<"page">> => product_id = NoId

\* both requests failed, and neither was made again
C5_Witness ==
  /\ Done
  /\ requests = <<"api", "page">>
  /\ api_response.outcome = "exception"
  /\ page_response.outcome = "exception"

\* C6: the availability cross-check changes is_available to false only: a
\* page-derived record that is already unavailable stays unavailable and
\* nothing else of the record changes; a record of the API source is returned
\* as fetch_from_api made it, with no page request and no page source run.
C6_CrossCheckOnlyDowngrades ==
  /\ (Done /\ IsRec(res)) =>
       /\ IsRec(result)
       /\ [result EXCEPT !.is_available = res.is_available] = res
       /\ result.is_available /= res.is_available => result.is_available = "False"
       /\ res.is_available = "False" => result.is_available = "False"
  /\ (Done /\ IsRec(api_data)) =>
       /\ result = api_data
       /\ result.is_available = ApiAvailable(api_response.data)
       /\ requests = <<"api">>
       /\ sources_run = <<>>
       /\ page_response = NoPageResponse

\* a page record that is unavailable on a page without out-of-stock marker
C6_Witness ==
  /\ Done /\ IsRec(res)
  /\ res.is_available = "False"
  /\ ~page_soup.oos
  /\ result.is_available = "False"

\* C7: every non-empty result has a non-empty name and at least one of
\* current_price / list_price.
C7_NameAndPrice ==
  (Done /\ IsRec(result))
  => /\ result.name \notin {NoneS, ""}
     /\ result.current_price /= NoneN \/ result.list_price /= NoneN

\* C8: if the page fetch fails (timeout, connection error or a status other
\* than 200), no page-based source runs and the result is empty.
C8_PageFetchFailure ==
  (/\ Done
   /\ \/ page_response.outcome = "exception"
      \/ PageArrived /\ page_response.status_code /= 200)
  => sources_run = <<>> /\ result = NoRec

ApiFailed ==
  \/ api_response.outcome = "exception"
  \/ /\ api_response.outcome = "response"
     /\ api_response.status_code /= 200 \/ api_response.body = "not_json"

\* C9: after an API request that got a status other than 200, raised a
\* network error or got a body that is no JSON, fetch_from_api has returned no
\* result without raising, and fetch_product_data goes on to scrape_page: it
\* has not returned before the page request, and makes exactly one.
C9_ApiFailureFallsThrough ==
  ApiFailed =>
    /\ api_data = NoRec
    /\ pc \in {"page", "done"}
    /\ pc = "page" => result = Pending /\ requests = <<"api">> /\ ENABLED ScrapePage
    /\ pc = "done" => requests = <<"api", "page">>

\* the API answered 500 and the record comes from the page
C9_Witness ==
  /\ Done
  /\ api_response.outcome = "response" /\ api_response.status_code = 500
  /\ requests = <<"api", "page">>
  /\ IsRec(result)

SetMax(S) == CHOOSE x \in S : \A y \in S : x >= y

SetMin(S) == CHOOSE x \in S : \A y \in S : x =< y

\* the first value of the sequence that is not None
RECURSIVE FirstOf(_)
FirstOf(xs) ==
  IF xs = <<>> THEN NoneN
  ELSE IF Head(xs) /= NoneN THEN Head(xs)
  ELSE FirstOf(Tail(xs))

\* the prices an API response carries: the top-level one (a key of the
\* object, else of its pricing object) and one per variant
RawSalePrices(data) ==
  ({FirstOf(<<data.sale_price, data.salePrice>>
            \o (IF data.has_pricing
                THEN <<data.pricing.salePrice, data.pricing.sale_price>> ELSE <<>>))}
   \cup {FirstOf(<<data.variants[i].salePrice, data.variants[i].sale_price>>) :
           i \in 1..Len(data.variants)}) \ {NoneN}

RawListPrices(data) ==
  ({FirstOf(<<data.list_price, data.listPrice, data.price>>
            \o (IF data.has_pricing
                THEN <<data.pricing.listPrice, data.pricing.list_price, data.pricing.price>>
                ELSE <<>>))}
   \cup {FirstOf(<<data.variants[i].listPrice, data.variants[i].list_price>>) :
           i \in 1..Len(data.variants)}) \ {NoneN}

\* fetch_from_api made the record from a response with a variants array, none
\* of whose prices is the number zero
ApiRecordWithVariants ==
  /\ Done /\ requests = <<"api">> /\ IsRec(result)
  /\ api_response.data.has_variants
  /\ 0 \notin RawSalePrices(api_response.data) \cup RawListPrices(api_response.data)

FlagValues(data) ==
  {f \in {"isAvailable", "inStock", "isOrderable", "buyable"} : data[f] \in {"true", "false"}}

\* fetch_from_api made the record returned
ApiRecord == Done /\ requests = <<"api">> /\ IsRec(result)

\* C11: the is_available of a record of the API source is the OR of the flags
\* isAvailable, inStock, isOrderable, buyable the response carries: true when
\* it carries none, true when one of them is true, false only when it carries
\* at least one and all it carries are false.
C11_AvailabilityIsOrOfFlags ==
  ApiRecord =>
    LET data == api_response.data
    IN  /\ result.is_available \in {"True", "False"}
        /\ FlagValues(data) = {} => result.is_available = "True"
        /\ (\E f \in FlagValues(data) : data[f] = "true") => result.is_available = "True"
        /\ result.is_available = "False"
             <=> (FlagValues(data) /= {} /\ \A f \in FlagValues(data) : data[f] = "false")

\* isAvailable false and inStock true: available
C11_Witness ==
  /\ ApiRecord
  /\ api_response.data.productName = "Crew Hoodie"
  /\ api_response.data.isAvailable = "false" /\ api_response.data.inStock = "true"
  /\ api_response.data.isOrderable = "absent" /\ api_response.data.buyable = "absent"
  /\ result.is_available = "True"
  /\ result.current_price = 1 /\ result.list_price = 2

\* the URL with every separator written as sep: its underscore-separated and
\* its dash-separated form
WithSep(u, sep) == [k \in 1..Len(u) |-> IF u[k] \in {"_", "-"} THEN sep ELSE u[k]]

\* the URL holds a four-part numeric code, in either form
HasCode(u) == FirstPos(u, 1) > 0 \/ FirstPos(u, 2) > 0

Extracted == pc /= "start" /\ product_id /= NoId

\* C12 as stated: extraction is idempotent, extracting from what was extracted
\* gives it again.
C12_AsStated == Extracted => extract_product_id(product_id) = product_id

\* C12 as amended: the underscore-separated and the dash-separated form of a
\* URL with a code give the same identifier, the one extracted, which holds
\* no dash, so that normalising it again changes nothing; extracting from the
\* identifier itself, which is no URL, gives no identifier.
C12_SameIdentifierForBothForms ==
  /\ (pc /= "start" /\ HasCode(url)) =>
       /\ product_id /= NoId
       /\ extract_product_id(WithSep(url, "_")) = product_id
       /\ extract_product_id(WithSep(url, "-")) = product_id
  /\ Extracted =>
       /\ \A k \in 1..Len(product_id) : product_id[k] /= "-"
       /\ ReplaceDash(product_id) = product_id
       /\ extract_product_id(product_id) = NoId

\* the dash-separated URL gave the underscore-separated identifier
C12_Witness ==
  /\ pc /= "start"
  /\ url = UrlDash
  /\ product_id = TargetId
  /\ extract_product_id(UrlUnderscore) = TargetId

\* none of the three patterns matches the URL
NoPatternMatches(u) == \A k \in 1..3 : FirstPos(u, k) = 0

\* C13: when no pattern matches the URL, extract_product_id returns no
\* identifier (and raises nothing), no API request is made, and the call goes
\* on to the page: it makes exactly one page request, and the page-based
\* sources run on the page that arrives.
C13_NoIdentifierGoesToPage ==
  (pc /= "start" /\ NoPatternMatches(url)) =>
    /\ product_id = NoId
    /\ api_response = NoApiResponse /\ api_data = Pending
    /\ \A i \in 1..Len(requests) : requests[i] /= "api"
    /\ pc \in {"page", "done"}
    /\ pc = "page" => requests = <<>> /\ result = Pending /\ ENABLED ScrapePage
    /\ pc = "done" =>
         /\ requests = <<"page">>
         /\ result.kind \in {"rec", "none"}
         /\ PageArrived => (sources_run /= <<>> /\ sources_run[1] = "initial_state")

\* a URL without identifier whose page gave a record after all four sources
\* had run
C13_Witness ==
  /\ Done
  /\ url = UrlPlain
  /\ product_id = NoId
  /\ requests = <<"page">>
  /\ Len(sources_run) = 4
  /\ IsRec(result)

\* the window-state assignments of the page whose JSON decodes to an object
\* with a product key holding an object with usable prices
UsableStates ==
  {i \in 1..Len(page_soup.state) :
     /\ page_soup.state[i].json_ok /\ page_soup.state[i].has_product
     /\ page_soup.state[i].product.is_dict
     /\ Or(page_soup.state[i].product.salePrice, page_soup.state[i].product.price) /= BadNum
     /\ Or(page_soup.state[i].product.listPrice,
           Or(page_soup.state[i].product.salePrice, page_soup.state[i].product.price)) /= BadNum}

\* the API gave nothing and the page that arrived holds a JSON-LD Product
\* block from which the JSON-LD source makes a record, and no matching
\* shoebox block
LdPageWithoutShoebox ==
  /\ Done /\ ApiGaveNothing /\ PageArrived
  /\ LdProductNames /= {}
  /\ IsRec(extract_json_ld(page_soup))
  /\ ShoeboxProducts = {}

LdScriptSeq == page_soup.ld_class \o page_soup.ld_type

\* the values of availability that say out of stock: the URI forms and the
\* bare keyword
OutOfStockValues ==
  {"OutOfStock", "http://schema.org/OutOfStock", "https://schema.org/OutOfStock"}

\* the JSON-LD source was called on a page whose one JSON-LD script is a
\* named Product node with an offers object, or a non-empty offers array,
\* whose (first) offer has a price
LdOfferCase ==
  /\ Done /\ PageArrived
  /\ Len(sources_run) >= 2 /\ sources_run[2] = "json_ld"
  /\ Len(LdScriptSeq) = 1
  /\ LdScriptSeq[1].string /\ LdScriptSeq[1].json_ok /\ ~LdScriptSeq[1].data.is_list
  /\ LET node == LdScriptSeq[1].data.nodes[1]
     IN  /\ node.type = "Product" /\ TruthyS(node.name)
         /\ node.offers_kind \in {"dict", "list"} /\ Len(node.offers) > 0
         /\ node.offers[1].has_price /\ node.offers[1].price > 0

\* C15: for a JSON-LD Product node whose offers is one object or a non-empty
\* array, the JSON-LD source yields a record with current_price = list_price
\* = the price of the (first) offer, and is_available false exactly when the
\* availability of the offer is the out-of-stock value.
C15_JsonLdOffers ==
  LdOfferCase =>
    LET node == LdScriptSeq[1].data.nodes[1]
    IN  /\ IsRec(res) /\ sources_run = <<"initial_state", "json_ld">>
        /\ res.name = node.name
        /\ res.current_price = node.offers[1].price
        /\ res.list_price = node.offers[1].price
        /\ res.is_available = "False" <=> node.offers[1].availability \in OutOfStockValues

\* the page holds neither shoebox or window-state scripts nor JSON-LD nor
\* __NEXT_DATA__: HTML elements only
OnlyHtml ==
  /\ PageArrived
  /\ page_soup.shoebox = <<>> /\ page_soup.state = <<>>
  /\ page_soup.ld_class = <<>> /\ page_soup.ld_type = <<>>
  /\ ~page_soup.next_data.present

\* no list-price element of the page reads as a price
NoListPriceElement ==
  \A i \in 1..Len(page_soup.list_elems) :
    ~(page_soup.list_elems[i].dollar /\ page_soup.list_elems[i].amount /= NoneN)

\* a name element with text, and a first price element reading "$" and an amount
HtmlNameAndPrice ==
  /\ \E i \in 1..Len(page_soup.name_texts) : page_soup.name_texts[i] \notin {NoneS, ""}
  /\ page_soup.price_elems /= <<>>
  /\ page_soup.price_elems[1] /= <<>>
  /\ page_soup.price_elems[1][1].dollar
  /\ page_soup.price_elems[1][1].amount > 0

\* C16: when no identifier is extractable and the page offers only HTML
\* elements, a name and a price element reading an amount and no list-price
\* element, the record returned has current_price = list_price = that amount;
\* in general the record of the HTML source has list_price = current_price
\* when no list-price element reads as a price.
C16_HtmlListDefaultsToCurrent ==
  /\ (Done /\ product_id = NoId /\ OnlyHtml /\ HtmlNameAndPrice /\ NoListPriceElement) =>
       /\ requests = <<"page">>
       /\ IsRec(result)
       /\ result.current_price = page_soup.price_elems[1][1].amount
       /\ result.list_price = page_soup.price_elems[1][1].amount
  /\ (Done /\ PageSource = "html" /\ IsRec(res) /\ NoListPriceElement) =>
       /\ res.list_price = res.current_price
       /\ result.list_price = result.current_price

\* a page with a name, a price element and no list-price element at all
C16_Witness ==
  /\ Done /\ url = UrlPlain /\ OnlyHtml /\ HtmlNameAndPrice
  /\ page_soup.list_elems = <<>>
  /\ page_soup.price_elems = <<<<Text(TRUE, 2)>>>>
  /\ IsRec(result)
  /\ result.current_price = 2 /\ result.list_price = 2

----------------------------------------------------------------------------
(* The web application: src/app.py, src/models.py, src/emailer.py,         *)
(* src/scheduler.py. Requests are made by a guest (no user is logged in); *)
(* every handler runs and commits, or fails, as one step.                  *)

(* Bounds of the application model *)

\* the number of requests and scheduled runs in a run of the application
MaxOps == 2

(* The tables: src/models.py 43-139 *)

\* the attributes of the class Product (lines 49-77, and the backref of
\* line 30): the keyword arguments its constructor accepts
ProductAttrs ==
  {"id", "url", "name", "current_price", "list_price", "image_url", "created_at",
   "last_checked", "price_history", "alerts", "is_on_sale", "discount_percentage",
   "to_dict", "followers"}

\* a row of products
ProductRow(id, u, n, cp, lp) ==
  [id |-> id, url |-> u, name |-> n, current_price |-> cp, list_price |-> lp]

\* a row of price_history
HistoryRow(pid, price) == [product_id |-> pid, price |-> price]

\* a row of price_alerts; the token of an alert that has one is unique to it
\* (uuid4) and stands as the alert's id
AlertRow(id, pid, email, target, triggered, has_token) ==
  [id |-> id, product_id |-> pid, user_id |-> 0, email |-> email, target_price |-> target,
   triggered |-> triggered, has_token |-> has_token]

ProductIds == {p.id : p \in products}

\* db.session.get(Product, product_id)
GetProduct(id) == CHOOSE p \in products : p.id = id

\* a query that finds no product
ProductsByUrlNone(u) == {p \in products : FALSE}

\* Product.query.filter_by(url=url).first(), url being unique (line 50)
ProductsByUrl(u) == {p \in products : p.url = u}

\* what a handler did: the answer it gave (status, message, the id of the
\* product answered, the scraped record if the body is one), whether it
\* called fetch_product_data, and in prices the current_price that call gave
\* it for every product it checked
Reply(op, status, message, fetched, product) ==
  [op |-> op, status |-> status, message |-> message, fetched |-> fetched,
   product |-> product, prices |-> <<>>, record |-> NoRec]

\* the check of a product fetched nothing: fetch_product_data returned None,
\* or raised
NoFetch == 0 - 3

\* data.get('current_price') of what was fetched: app.py 431-436,
\* scheduler.py 26-27
FetchedPrice(data) == IF data.kind = "rec" THEN data.current_price ELSE NoFetch

\* a reply of a price check with the prices it fetched
Checked(response, fetched) ==
  [response EXCEPT !.prices = [i \in DOMAIN fetched |-> FetchedPrice(fetched[i])]]

(* The inputs of the requests *)

AppUrls == {"", "u1", "u2", "u3"}

\* what fetch_product_data returns to track_product and scrape_product_data
TrackResults ==
  {NoRec, Rec(NoneS, 2, 2, NoneS, "True"), Rec("Tee", 2, 3, NoneS, "True"),
   Rec("Tee", NoneN, NoneN, NoneS, "False")}

\* what fetch_product_data returns to a price check
CheckResults ==
  {NoRec} \cup {Rec("Tee", q[1], q[2], NoneS, q[3]) :
                  q \in {<<NoneN, NoneN, "False">>, <<NoneN, 2, "True">>, <<1, 2, "True">>,
                         <<2, 2, "True">>, <<1, 2, "False">>}}

\* what the call of fetch_product_data gives the scheduled check of a
\* product: the call is the first statement of the try block (scheduler.py
\* 22-24), whose except clause takes whatever it raises
RunResults == CheckResults \cup {RaiseRec}

\* the product_id of a request: absent, or a number
RequestIds == {0, 1, 2, 3}

\* the email of a request: absent or blank, or an address
RequestEmails == {"", "a@x"}

\* the target_price of a request: absent, "not-a-number", 0, or an amount
RequestTargets == {NoneN, BadNum, 0, 1, 2}

\* what send_price_alert does with one mail: "sent", it returns True (the
\* mail went out, or no sender is configured and it was only printed), or
\* "failed", SMTP raised and it returns False
MailOutcomes == {"sent", "failed"}

(* The handlers of src/app.py *)

\* the keyword arguments track_product gives the constructor: lines 258-265
TrackKwargs == {"url", "name", "current_price", "list_price", "image_url", "is_available"}

\* the declarative constructor raises TypeError on a keyword argument that
\* is no attribute of the class
ConstructorRaises(kwargs) == ~(kwargs \subseteq ProductAttrs)

\* POST /api/track: lines 221-290; u: the url of the request, data: what
\* fetch_product_data returns if it is called
TrackWith(u, data) ==
    IF u = ""
    THEN /\ reply' = Reply("track", 400, "URL is required", FALSE, 0)
         /\ UNCHANGED <<products, price_history, price_alerts, next_product, next_alert, sent>>
    ELSE IF ProductsByUrl(u) /= {}
    THEN /\ reply' = Reply("track", 200, "Product already tracked", FALSE,
                           (CHOOSE p \in ProductsByUrl(u) : TRUE).id)
         /\ UNCHANGED <<products, price_history, price_alerts, next_product, next_alert, sent>>
    ELSE IF data.kind = "none"
    THEN /\ reply' = Reply("track", 400, "Could not fetch product data. Please check the URL.", TRUE, 0)
         /\ UNCHANGED <<products, price_history, price_alerts, next_product, next_alert, sent>>
    ELSE IF ~TruthyS(data.name)
    THEN /\ reply' = Reply("track", 400, "Could not extract product name", TRUE, 0)
         /\ UNCHANGED <<products, price_history, price_alerts, next_product, next_alert, sent>>
    ELSE IF ConstructorRaises(TrackKwargs)
    THEN \* except Exception: rollback, lines 283-285
         /\ reply' = Reply("track", 500, "Database error", TRUE, 0)
         /\ UNCHANGED <<products, price_history, price_alerts, next_product, next_alert, sent>>
    ELSE /\ products' = products \cup
              {ProductRow(next_product, u, data.name, data.current_price, data.list_price)}
         /\ next_product' = next_product + 1
         /\ price_history' =
              IF Truthy(data.current_price)
              THEN Append(price_history, HistoryRow(next_product, data.current_price))
              ELSE price_history
         /\ reply' = Reply("track", 200, "Product added successfully", TRUE, next_product)
         /\ UNCHANGED <<price_alerts, next_alert, sent>>

TrackProduct == \E u \in AppUrls, data \in TrackResults : TrackWith(u, data)

\* a scrape that also saves what it fetched, as track_product would
ScrapeAndSave(u, data) ==
  IF u = ""
  THEN /\ reply' = Reply("scrape", 400, "URL is required", FALSE, 0)
       /\ UNCHANGED <<products, price_history, price_alerts, next_product, next_alert, sent>>
  ELSE IF data.kind = "none"
  THEN /\ reply' = Reply("scrape", 400, "Could not fetch product data", TRUE, 0)
       /\ UNCHANGED <<products, price_history, price_alerts, next_product, next_alert, sent>>
  ELSE /\ reply' = [Reply("scrape", 200, "", TRUE, 0) EXCEPT !.record = data]
       /\ products' = products \cup
            {ProductRow(next_product, u, data.name, data.current_price, data.list_price)}
       /\ next_product' = next_product + 1
       /\ UNCHANGED <<price_history, price_alerts, next_alert, sent>>

\* POST /api/scrape: lines 205-218; u: the url of the request, data: what
\* fetch_product_data returns if it is called
ScrapeWith(u, data) ==
  IF u = ""
  THEN /\ reply' = Reply("scrape", 400, "URL is required", FALSE, 0)
       /\ UNCHANGED <<products, price_history, price_alerts, next_product, next_alert, sent>>
  ELSE IF data.kind = "none"
  THEN /\ reply' = Reply("scrape", 400, "Could not fetch product data", TRUE, 0)
       /\ UNCHANGED <<products, price_history, price_alerts, next_product, next_alert, sent>>
  ELSE /\ reply' = [Reply("scrape", 200, "", TRUE, 0) EXCEPT !.record = data]
       /\ UNCHANGED <<products, price_history, price_alerts, next_product, next_alert, sent>>

ScrapeProductData == \E u \in AppUrls, data \in TrackResults : ScrapeWith(u, data)

\* the alerts of a product, triggered or not
AnyAlerts(pid) == {a \in price_alerts : a.product_id = pid}

\* the untriggered alerts of a product
ActiveAlerts(pid) == {a \in price_alerts : a.product_id = pid /\ ~a.triggered}

\* current_user of a request (flask_login): nobody, id 0, or the user with
\* this id and this verified email
Guest == [id |-> 0, email |-> ""]
Member == [id |-> 1, email |-> "a@x"]
RequestUsers == {Guest, Member}

\* the alert create_alert looks for, lines 339-351: by user_id for a user
\* who is logged in, by email for a guest
ExistingAlerts(pid, user_id, email) ==
  IF user_id /= 0
  THEN {a \in ActiveAlerts(pid) : a.user_id = user_id}
  ELSE {a \in ActiveAlerts(pid) : a.email = email}

\* POST /api/alert: lines 309-400; user: current_user, address: the email
\* of the request, which is read for a guest only (lines 317-322); the
\* confirmation mail goes out in a thread of its own and changes nothing here
CreateAlertWith(user, pid, address, target) ==
    LET email == IF user.id /= 0 THEN user.email ELSE address
        existing == ExistingAlerts(pid, user.id, email)
        old == CHOOSE a \in existing : \A b \in existing : a.id <= b.id
    IN  IF pid = 0 \/ email = "" \/ ~Truthy(target)
        THEN /\ reply' = Reply("alert", 400, "product_id, email, and target_price are required",
                               FALSE, 0)
             /\ UNCHANGED <<products, price_history, price_alerts, next_product, next_alert, sent>>
        ELSE IF target = BadNum
        THEN /\ reply' = Reply("alert", 400, "Invalid target price", FALSE, 0)
             /\ UNCHANGED <<products, price_history, price_alerts, next_product, next_alert, sent>>
        ELSE IF pid \notin ProductIds
        THEN /\ reply' = Reply("alert", 404, "Product not found", FALSE, 0)
             /\ UNCHANGED <<products, price_history, price_alerts, next_product, next_alert, sent>>
        ELSE IF existing /= {}
        THEN /\ price_alerts' = (price_alerts \ {old}) \cup
                                  {[old EXCEPT !.target_price = target, !.user_id = user.id,
                                               !.has_token = TRUE]}
             /\ reply' = Reply("alert", 200, "Alert updated successfully", FALSE, pid)
             /\ UNCHANGED <<products, price_history, next_product, next_alert, sent>>
        ELSE /\ price_alerts' = price_alerts \cup
                                  {[AlertRow(next_alert, pid, email, target, FALSE, TRUE)
                                      EXCEPT !.user_id = user.id]}
             /\ next_alert' = next_alert + 1
             /\ reply' = Reply("alert", 200, "Alert created successfully", FALSE, pid)
             /\ UNCHANGED <<products, price_history, next_product, sent>>

CreateAlert ==
  \E user \in RequestUsers, pid \in RequestIds, address \in RequestEmails,
     target \in RequestTargets :
    (user.id /= 0 => address = "") /\ CreateAlertWith(user, pid, address, target)

\* a delete_product that deletes the product and its history only
DeleteProductKeepAlerts ==
  \E pid \in RequestIds \ {0} :
    IF pid \notin ProductIds
    THEN /\ reply' = Reply("delete", 404, "Not Found", FALSE, 0)
         /\ UNCHANGED <<products, price_history, price_alerts, next_product, next_alert, sent>>
    ELSE /\ price_history' = SelectSeq(price_history, LAMBDA h : h.product_id /= pid)
         /\ products' = products \ {GetProduct(pid)}
         /\ reply' = Reply("delete", 200, "Product deleted successfully", FALSE, pid)
         /\ UNCHANGED <<price_alerts, next_product, next_alert, sent>>

\* DELETE /api/product/<id>: lines 403-416
DeleteProduct ==
  \E pid \in RequestIds \ {0} :
    IF pid \notin ProductIds
    THEN /\ reply' = Reply("delete", 404, "Not Found", FALSE, 0)
         /\ UNCHANGED <<products, price_history, price_alerts, next_product, next_alert, sent>>
    ELSE /\ price_history' = SelectSeq(price_history, LAMBDA h : h.product_id /= pid)
         /\ price_alerts' = {a \in price_alerts : a.product_id /= pid}
         /\ products' = products \ {GetProduct(pid)}
         /\ reply' = Reply("delete", 200, "Product deleted successfully", FALSE, pid)
         /\ UNCHANGED <<next_product, next_alert, sent>>

\* the tokens a request may carry: those of the alerts, and one of no alert
RequestTokens == 1..next_alert

\* an unsubscribe that deletes every alert of the product of the alert found
UnsubscribeWholeProduct(token) ==
    LET found == {a \in price_alerts : a.has_token /\ a.id = token}
        gone == {a \in price_alerts : \E f \in found : a.product_id = f.product_id}
    IN  IF found = {}
        THEN /\ reply' = Reply("unsubscribe", 200, "Invalid or expired unsubscribe link.",
                               FALSE, 0)
             /\ UNCHANGED <<products, price_history, price_alerts, next_product, next_alert, sent>>
        ELSE /\ price_alerts' = price_alerts \ gone
             /\ reply' = Reply("unsubscribe", 200, "Successfully Unsubscribed", FALSE,
                               (CHOOSE a \in found : TRUE).product_id)
             /\ UNCHANGED <<products, price_history, next_product, next_alert, sent>>

\* GET /unsubscribe/<token>: lines 483-497; the token of an alert is
\* modelled by the alert's id, each token being a fresh uuid4 (line 378)
UnsubscribeWith(token) ==
    LET found == {a \in price_alerts : a.has_token /\ a.id = token}
    IN  IF found = {}
        THEN /\ reply' = Reply("unsubscribe", 200, "Invalid or expired unsubscribe link.",
                               FALSE, 0)
             /\ UNCHANGED <<products, price_history, price_alerts, next_product, next_alert, sent>>
        ELSE /\ price_alerts' = price_alerts \ found
             /\ reply' = Reply("unsubscribe", 200, "Successfully Unsubscribed", FALSE,
                               (CHOOSE a \in found : TRUE).product_id)
             /\ UNCHANGED <<products, price_history, next_product, next_alert, sent>>

Unsubscribe == \E token \in RequestTokens : UnsubscribeWith(token)

(* The price checks: refresh_product (src/app.py 419-480) and              *)
(* update_all_prices (src/scheduler.py 10-82)                              *)

\* the rows of a query, in the order of their ids
RECURSIVE SeqById(_)
SeqById(rows) ==
  IF rows = {} THEN <<>>
  ELSE LET first == CHOOSE r \in rows : \A q \in rows : r.id <= q.id
       IN  <<first>> \o SeqById(rows \ {first})

\* the database and the mails a price check works on
Db(ps, hs, as, ms) == [products |-> ps, price_history |-> hs, price_alerts |-> as, sent |-> ms]

\* Reached with a price that has to be below the target
ReachedBelow(alerts, pid, current_price) ==
  {a \in alerts : a.product_id = pid /\ ~a.triggered /\ current_price < a.target_price}

\* the untriggered alerts of the product whose target the price has reached:
\* app.py 452-458, scheduler.py 50-56
Reached(alerts, pid, current_price) ==
  {a \in alerts : a.product_id = pid /\ ~a.triggered /\ current_price <= a.target_price}

\* app.py 457-473, scheduler.py 55-72: each such alert gets a token if it
\* has none, send_price_alert is called for it, and it is marked triggered,
\* whatever send_price_alert returns
TriggerAlerts(alerts, fired) ==
  (alerts \ fired) \cup {[a EXCEPT !.triggered = TRUE, !.has_token = TRUE] : a \in fired}

\* the calls of send_price_alert for these alerts, with the current_price
\* they announce; mail[id]: what becomes of the mail for the alert id
Mails(fired, mail, current_price) ==
  [i \in 1..Cardinality(fired) |->
     [alert |-> SeqById(fired)[i].id, outcome |-> mail[SeqById(fired)[i].id],
      current_price |-> current_price]]

\* StorePrices entering every price that is present in the history, also
\* the one already stored
StorePricesAlways(db, pid, data) ==
  LET p == CHOOSE q \in db.products : q.id = pid
      present == data.current_price /= NoneN
      p1 == [p EXCEPT !.current_price = IF present THEN data.current_price ELSE @,
                      !.list_price = IF data.list_price /= NoneN THEN data.list_price ELSE @]
  IN  [db EXCEPT !.products = (db.products \ {p}) \cup {p1},
                 !.price_history = IF present
                                   THEN Append(db.price_history,
                                               HistoryRow(pid, data.current_price))
                                   ELSE db.price_history]

\* app.py 438-447, scheduler.py 35-46: the price of the record is stored,
\* and entered in the history when it is present and differs
StorePrices(db, pid, data) ==
  LET p == CHOOSE q \in db.products : q.id = pid
      changed == data.current_price /= NoneN /\ data.current_price /= p.current_price
      p1 == [p EXCEPT !.current_price = IF changed THEN data.current_price ELSE @,
                      !.list_price = IF data.list_price /= NoneN THEN data.list_price ELSE @]
  IN  [db EXCEPT !.products = (db.products \ {p}) \cup {p1},
                 !.price_history = IF changed
                                   THEN Append(db.price_history,
                                               HistoryRow(pid, data.current_price))
                                   ELSE db.price_history]

\* what may become of the mails for these alerts
MailChoices(alerts) == [{a.id : a \in alerts} -> MailOutcomes]

\* the alerts send_price_alert is called for: by a refresh that fetched data
\* (app.py 452-458) and by the scheduled check of one product (scheduler.py
\* 49-56)
RefreshMailed(pid, data) ==
  IF IsRec(data) /\ data.current_price /= NoneN
  THEN Reached(price_alerts, pid, data.current_price)
  ELSE {}

UpdateMailed(pid, data) ==
  IF IsRec(data) /\ data.is_available = "True" /\ data.current_price /= NoneN
  THEN Reached(price_alerts, pid, data.current_price)
  ELSE {}

\* app.py 450-473: every untriggered alert is compared with the price
RefreshAlerts(db, pid, data, mail) ==
  LET fired == Reached(db.price_alerts, pid, data.current_price)
  IN  [db EXCEPT !.price_alerts = TriggerAlerts(db.price_alerts, fired),
                 !.sent = db.sent \o Mails(fired, mail, data.current_price)]

\* POST /api/refresh/<id>: lines 419-480; data: what fetch_product_data
\* returns, mail: what becomes of the mails
RefreshWith(pid, data, mail) ==
    LET db == Db(products, price_history, price_alerts, sent)
    IN  IF pid \notin ProductIds
        THEN /\ reply' = Reply("refresh", 404, "Not Found", FALSE, 0)
             /\ UNCHANGED <<products, price_history, price_alerts, next_product, next_alert, sent>>
        ELSE IF data.kind = "none"
        THEN /\ reply' = Checked(Reply("refresh", 400, "Could not fetch product data", TRUE, pid),
                              [i \in {pid} |-> data])
             /\ UNCHANGED <<products, price_history, price_alerts, next_product, next_alert, sent>>
        ELSE IF data.current_price = NoneN /\ ActiveAlerts(pid) /= {}
        THEN \* line 458: None <= alert.target_price raises TypeError; nothing
             \* was committed
             /\ reply' = Checked(Reply("refresh", 500, "Internal Server Error", TRUE, pid),
                              [i \in {pid} |-> data])
             /\ UNCHANGED <<products, price_history, price_alerts, next_product, next_alert, sent>>
        ELSE LET db1 == RefreshAlerts(StorePrices(db, pid, data), pid, data, mail)
             IN  /\ products' = db1.products
                 /\ price_history' = db1.price_history
                 /\ price_alerts' = db1.price_alerts
                 /\ sent' = db1.sent
                 /\ reply' = Checked(Reply("refresh", 200, "Price updated", TRUE, pid),
                              [i \in {pid} |-> data])
                 /\ UNCHANGED <<next_product, next_alert>>

RefreshProduct ==
  \E pid \in RequestIds \ {0}, data \in CheckResults :
    \E mail \in MailChoices(RefreshMailed(pid, data)) :
      RefreshWith(pid, data, mail)

\* scheduler.py 22-79: one product of the loop
UpdateOne(db, pid, data, mail) ==
  IF data.kind = "none" THEN db
  ELSE IF data.kind = "raise" THEN db      \* except Exception, lines 78-79
  ELSE LET db1 == StorePrices(db, pid, data)
           fired == IF data.is_available = "True" /\ data.current_price /= NoneN
                    THEN Reached(db1.price_alerts, pid, data.current_price)
                    ELSE {}
       IN  [db1 EXCEPT !.price_alerts = TriggerAlerts(db1.price_alerts, fired),
                       !.sent = db1.sent \o Mails(fired, mail, data.current_price)]

RECURSIVE UpdateLoopStop(_, _, _, _)
UpdateLoopStop(db, ids, fetched, mail) ==
  IF ids = <<>> THEN db
  ELSE IF fetched[Head(ids)].kind /= "rec" THEN db
  ELSE UpdateLoopStop(UpdateOne(db, Head(ids), fetched[Head(ids)], mail), Tail(ids), fetched, mail)

\* scheduler.py 19-79: the loop over Product.query.all()
RECURSIVE UpdateLoop(_, _, _, _)
UpdateLoop(db, ids, fetched, mail) ==
  IF ids = <<>> THEN db
  ELSE UpdateLoop(UpdateOne(db, Head(ids), fetched[Head(ids)], mail), Tail(ids), fetched, mail)

\* update_all_prices: scheduler.py 10-82, run by the daily job or by
\* POST /api/test-scheduler (app.py 519-528); one commit at the end
UpdateWith(fetched, mail) ==
    LET db1 == UpdateLoop(Db(products, price_history, price_alerts, sent),
                          [i \in 1..Cardinality(products) |-> SeqById(products)[i].id],
                          fetched, mail)
    IN  /\ products' = db1.products
        /\ price_history' = db1.price_history
        /\ price_alerts' = db1.price_alerts
        /\ sent' = db1.sent
        /\ reply' = Checked(Reply("update_all_prices", 200,
                                  "Price check completed successfully", products /= {}, 0),
                            fetched)
        /\ UNCHANGED <<next_product, next_alert>>

UpdateAllPrices ==
  \E fetched \in [ProductIds -> RunResults] :
    \E mail \in MailChoices(UNION {UpdateMailed(pid, fetched[pid]) : pid \in ProductIds}) :
      UpdateWith(fetched, mail)

(* The application as a state machine *)

\* fetch_product_data is not running: the handlers get its result as an input
ScraperIdle ==
  /\ pc = "off"
  /\ url = UrlPlain
  /\ product_id = NoId
  /\ api_response = NoApiResponse
  /\ api_data = Pending
  /\ page_response = NoPageResponse
  /\ res = Pending
  /\ result = Pending
  /\ requests = <<>>
  /\ sources_run = <<>>

\* the products the database holds when the application starts: none, one or
\* two, each with or without a price
StoredProduct(id, cp) ==
  ProductRow(id, IF id = 1 THEN "u1" ELSE "u2", "Tee", cp, IF cp = NoneN THEN NoneN ELSE 3)

InitProducts ==
  {{}, {StoredProduct(1, 2)}, {StoredProduct(1, 2), StoredProduct(2, NoneN)}}

\* the history track_product wrote for them (lines 274-279): one row for
\* each product that had a price
InitHistory(ps) ==
  LET priced == {p \in ps : p.current_price /= NoneN}
  IN  [i \in 1..Cardinality(priced) |->
         HistoryRow(SeqById(priced)[i].id, SeqById(priced)[i].current_price)]

\* an alert stored before alerts had tokens (lines 91-97: the token column
\* was added later)
LegacyAlert == AlertRow(1, 1, "a@x", 2, FALSE, FALSE)

AppInit ==
  /\ ScraperIdle
  /\ products \in InitProducts
  /\ price_history = InitHistory(products)
  /\ \/ price_alerts = {} /\ next_alert = 1
     \/ 1 \in ProductIds /\ price_alerts = {LegacyAlert} /\ next_alert = 2
  /\ next_product = 3
  /\ sent = <<>>
  /\ ops = 0
  /\ reply = NoResponse
  /\ engine = "sqlite"
  /\ jobs = <<>>

\* one request, or one scheduled run, handled from start to end with no
\* other beside it
Handled == ops < MaxOps /\ ops' = ops + 1 /\ UNCHANGED scraper_vars /\ UNCHANGED <<engine, jobs>>

AppNext ==
  \/ Handled /\ TrackProduct
  \/ Handled /\ ScrapeProductData
  \/ Handled /\ CreateAlert
  \/ Handled /\ DeleteProduct
  \/ Handled /\ RefreshProduct
  \/ Handled /\ Unsubscribe
  \/ Handled /\ UpdateAllPrices

AppSpec == AppInit /\ [][AppNext]_vars

----------------------------------------------------------------------------
(* Price checks side by side: refresh_product requests (the server handles  *)
(* requests in threads) and runs of update_all_prices (the scheduler's      *)
(* thread, or POST /api/test-scheduler). Each check has its own session     *)
(* (db.session is scoped to the application context) and so its own         *)
(* connection and transaction. Both checks assign product.last_checked      *)
(* before they query the alerts (app.py 448 and 452, scheduler.py 33 and    *)
(* 50), so the autoflush of that query writes the product row first: from   *)
(* then to the end of its transaction the check holds the database's write  *)
(* lock (SQLite: one writer per database, a second one gets "database is    *)
(* locked" after the busy timeout) or the lock of the row (PostgreSQL, READ *)
(* COMMITTED: a second UPDATE of the row waits for the first transaction).  *)

\* the number of price checks that run side by side: the run of
\* update_all_prices, which is the first, and the refresh_product requests
MaxJobs == 2

JobIds == 1..MaxJobs

\* what fetch_product_data gives these checks: nothing, a record without
\* price, one with the price 1 or 2, or one of a product that is not
\* available
RaceResults ==
  {NoRec, Rec("Tee", 1, 2, NoneS, "False")}
    \cup {Rec("Tee", q, 2, NoneS, "True") : q \in {NoneN, 1, 2}}

\* app.py 20-25: sqlite by default, postgresql by DATABASE_URL
Engines == {"sqlite", "postgresql"}

\* a price check that was not asked for yet: kind, whether refresh_product
\* or update_all_prices; pc, where it stands; todo, the products it has to
\* check, the first being the one at hand; data, what was fetched for it;
\* rows, the Product objects of its session; history, the PriceHistory rows
\* it added; dirty, the products it assigned to; locks, the product rows it
\* wrote; found, what its alert query returned; fired, the alerts it set
\* triggered
IdleJob ==
  [kind |-> "none", pc |-> "idle", todo |-> <<>>, data |-> NoRec, rows |-> {},
   history |-> <<>>, dirty |-> {}, locks |-> {}, found |-> {}, fired |-> {}]

\* the check is over: its session is closed, what it did not commit is
\* rolled back, its locks are released
DoneJob(kind) == [IdleJob EXCEPT !.kind = kind, !.pc = "done"]

\* a flush with no lock to wait for
CanWriteAlways(j) == TRUE

\* the UPDATE statements of the flush of this check can be executed: no
\* other transaction holds the write lock (sqlite), or the lock of one of
\* the rows to write (postgresql)
CanWrite(j) ==
  \/ jobs[j].dirty = {}
  \/ IF engine = "sqlite"
     THEN \A k \in JobIds \ {j} : jobs[k].locks = {}
     ELSE \A k \in JobIds \ {j} : jobs[k].locks \cap jobs[j].dirty = {}

\* what a step of a price check leaves alone
RaceFrame ==
  /\ UNCHANGED scraper_vars
  /\ UNCHANGED <<next_product, next_alert, ops, reply, engine>>

\* the check goes on after the product at hand: scheduler.py 21, the next
\* product of the loop, or the commit (app.py 475, scheduler.py 81)
Advance(job) ==
  LET rest == Tail(job.todo)
  IN  [job EXCEPT !.todo = rest, !.data = NoRec, !.found = {},
                  !.pc = IF rest /= <<>> THEN "fetch" ELSE "commit"]

\* app.py 422-424: db.session.get(Product, product_id)
StartRefresh(j, pid) ==
  /\ j > 1
  /\ jobs[j].pc = "idle"
  /\ \A k \in 2..(j - 1) : jobs[k].pc /= "idle"    \* the requests in the order they come
  /\ pid \in ProductIds
  /\ jobs' = [jobs EXCEPT ![j] = [IdleJob EXCEPT !.kind = "refresh", !.pc = "fetch",
                                                 !.todo = <<pid>>,
                                                 !.rows = {GetProduct(pid)}]]
  /\ UNCHANGED <<products, price_history, price_alerts, sent>>
  /\ RaceFrame

\* scheduler.py 19: Product.query.all()
StartUpdate(j) ==
  /\ j = 1
  /\ jobs[j].pc = "idle"
  /\ jobs' = [jobs EXCEPT ![j] =
                [IdleJob EXCEPT !.kind = "update_all_prices",
                                !.pc = IF products = {} THEN "commit" ELSE "fetch",
                                !.todo = [i \in 1..Cardinality(products) |->
                                            SeqById(products)[i].id],
                                !.rows = products]]
  /\ UNCHANGED <<products, price_history, price_alerts, sent>>
  /\ RaceFrame

\* app.py 426-448, scheduler.py 24-46: the fetch for the product at hand and
\* the assignments to the Product object of the session; then the alert
\* query, which refresh_product always makes and update_all_prices only for
\* an available product with a price
Fetch(j, data) ==
  LET job == jobs[j]
      pid == Head(job.todo)
      db1 == StorePrices(Db(job.rows, job.history, {}, <<>>), pid, data)
      job1 == [job EXCEPT !.rows = db1.products, !.history = db1.price_history,
                          !.dirty = @ \cup {pid}, !.data = data]
  IN  /\ job.pc = "fetch"
      /\ jobs' = [jobs EXCEPT ![j] =
                    IF data.kind /= "rec"
                    THEN IF job.kind = "refresh" THEN DoneJob(job.kind) ELSE Advance(job)
                    ELSE IF \/ job.kind = "refresh"
                            \/ data.is_available = "True" /\ data.current_price /= NoneN
                    THEN [job1 EXCEPT !.pc = "flush"]
                    ELSE Advance(job1)]
      /\ UNCHANGED <<products, price_history, price_alerts, sent>>
      /\ RaceFrame

\* the autoflush of the alert query: UPDATE products for the objects
\* assigned to, which takes the lock and holds it to the end of the
\* transaction
Flush(j) ==
  /\ jobs[j].pc = "flush"
  /\ CanWrite(j)
  /\ jobs' = [jobs EXCEPT ![j].locks = jobs[j].dirty, ![j].pc = "query"]
  /\ UNCHANGED <<products, price_history, price_alerts, sent>>
  /\ RaceFrame

\* sqlite, the lock is not to be had within the busy timeout: the flush
\* raises OperationalError. refresh_product answers 500; in update_all_prices
\* the except clause takes it, the session refuses every later statement
\* and the commit raises. Nothing of the check is committed.
GiveUp(j) ==
  /\ engine = "sqlite"
  /\ jobs[j].pc \in {"flush", "commit"}
  /\ ~CanWrite(j)
  /\ jobs' = [jobs EXCEPT ![j] = DoneJob(jobs[j].kind)]
  /\ UNCHANGED <<products, price_history, price_alerts, sent>>
  /\ RaceFrame

\* app.py 452-458, scheduler.py 50-56: the untriggered alerts of the product
\* as the database holds them now, and of these the ones the price reached;
\* in refresh_product a missing price and an alert raise TypeError
Query(j) ==
  LET job == jobs[j]
      pid == Head(job.todo)
      price == job.data.current_price
  IN  /\ job.pc = "query"
      /\ jobs' = [jobs EXCEPT ![j] =
                    IF price = NoneN
                    THEN IF ActiveAlerts(pid) /= {}
                         THEN DoneJob(job.kind)
                         ELSE Advance(job)
                    ELSE [job EXCEPT !.found = Reached(price_alerts, pid, price),
                                     !.pc = "send"]]
      /\ UNCHANGED <<products, price_history, price_alerts, sent>>
      /\ RaceFrame

\* app.py 459-473, scheduler.py 57-72: send_price_alert for each alert found,
\* and alert.triggered = True in the session
Send(j, mail) ==
  LET job == jobs[j]
  IN  /\ job.pc = "send"
      /\ sent' = sent \o Mails(job.found, mail, job.data.current_price)
      /\ jobs' = [jobs EXCEPT ![j] =
                    Advance([job EXCEPT !.fired = @ \cup {a.id : a \in job.found}])]
      /\ UNCHANGED <<products, price_history, price_alerts>>
      /\ RaceFrame

\* app.py 475, scheduler.py 81: db.session.commit() writes what the session
\* holds and ends the transaction
Commit(j) ==
  LET job == jobs[j]
  IN  /\ job.pc = "commit"
      /\ CanWrite(j)
      /\ products' = {p \in products : p.id \notin job.dirty}
                       \cup {p \in job.rows : p.id \in job.dirty}
      /\ price_history' = price_history \o job.history
      /\ price_alerts' = TriggerAlerts(price_alerts, {a \in price_alerts : a.id \in job.fired})
      /\ jobs' = [jobs EXCEPT ![j] = DoneJob(job.kind)]
      /\ UNCHANGED sent
      /\ RaceFrame

\* an alert on the second product
SecondAlert == AlertRow(2, 2, "a@x", 1, FALSE, TRUE)

RaceInit ==
  /\ ScraperIdle
  /\ products = {StoredProduct(1, 2), StoredProduct(2, NoneN)}
  /\ price_history = InitHistory(products)
  /\ price_alerts = {LegacyAlert, SecondAlert}
  /\ next_product = 3
  /\ next_alert = 3
  /\ sent = <<>>
  /\ ops = 0
  /\ reply = NoResponse
  /\ engine \in Engines
  /\ jobs = [j \in JobIds |-> IdleJob]

RaceNext ==
  \/ \E j \in JobIds, pid \in RequestIds : StartRefresh(j, pid)
  \/ \E j \in JobIds : StartUpdate(j)
  \/ \E j \in JobIds, data \in RaceResults : Fetch(j, data)
  \/ \E j \in JobIds : Flush(j)
  \/ \E j \in JobIds : GiveUp(j)
  \/ \E j \in JobIds : Query(j)
  \/ \E j \in JobIds : \E mail \in MailChoices(jobs[j].found) : Send(j, mail)
  \/ \E j \in JobIds : Commit(j)

RaceSpec == RaceInit /\ [][RaceNext]_vars

\* is_available as the framework-state source is said to set it: from
\* isAvailable when the product has it, else from inStock when it has it,
\* else true
PreferredAvailable(product) ==
  IF product.isAvailable /= "absent"
  THEN (IF product.isAvailable = "true" THEN "True" ELSE "False")
  ELSE IF product.inStock /= "absent"
  THEN (IF product.inStock = "true" THEN "True" ELSE "False")
  ELSE "True"

\* the flags of the product are absent, true or false
PlainFlags(product) ==
  product.isAvailable \in {"absent", "true", "false"}
    /\ product.inStock \in {"absent", "true", "false"}

\* the record scrape_page took is the one of the __NEXT_DATA__ script
NextDataCase ==
  /\ Done /\ PageArrived /\ PageSource = "next_data" /\ IsRec(res)
  /\ PlainFlags(page_soup.next_data.product)

\* the record scrape_page took is the one of the only window-state
\* assignment of the page
WindowStateCase ==
  /\ Done /\ PageArrived /\ PageSource = "initial_state" /\ IsRec(res)
  /\ page_soup.shoebox = <<>> /\ Len(page_soup.state) = 1
  /\ PlainFlags(page_soup.state[1].product)

\* C23: the framework-state source sets is_available from isAvailable when
\* present, else from inStock when present, else true, on both of its paths:
\* the __NEXT_DATA__ script block and the regex-scanned window-state
\* assignment.
C23_FrameworkStateAvailability ==
  /\ NextDataCase => res.is_available = PreferredAvailable(page_soup.next_data.product)
  /\ WindowStateCase => res.is_available = PreferredAvailable(page_soup.state[1].product)

----------------------------------------------------------------------------
(* What the claims say of the application *)

\* the rows of a history that belong to a product
RowsOf(history, pid) == SelectSeq(history, LAMBDA r : r.product_id = pid)

\* the current_price a set of product rows stores for a product
StoredPrice(rows, pid) == (CHOOSE p \in rows : p.id = pid).current_price

\* in this step the history of the product got one more row, holding the
\* price fetched, and the product that price, when the price fetched is
\* present and differs from the one stored; else it got no row and the
\* product kept its price
HistoryFollowsFetch(pid, fetched) ==
  LET differs == fetched \notin {NoneN, NoFetch} /\ fetched /= StoredPrice(products, pid)
  IN  /\ pid \in {p.id : p \in products'}
      /\ differs =>
           /\ RowsOf(price_history', pid)
                = Append(RowsOf(price_history, pid), HistoryRow(pid, fetched))
           /\ StoredPrice(products', pid) = fetched
      /\ ~differs =>
           /\ RowsOf(price_history', pid) = RowsOf(price_history, pid)
           /\ StoredPrice(products', pid) = StoredPrice(products, pid)

\* the step is a price check: a refresh or a run of update_all_prices
PriceCheckStep ==
  /\ ops' = ops + 1
  /\ reply'.op \in {"refresh", "update_all_prices"}

\* C17: in every price check, the manual refresh_product or the scheduled
\* update_all_prices, a PriceHistory row is appended for a product exactly
\* when the current_price fetched is present and differs from the one
\* stored: the same price adds no row, a new price adds exactly one row
\* holding it and becomes the product's current_price; the rows of the
\* products that were not checked stay as they are.
C17_HistoryOnlyOnChange ==
  [][PriceCheckStep =>
       /\ \A pid \in DOMAIN reply'.prices :
            HistoryFollowsFetch(pid, reply'.prices[pid])
       /\ \A pid \in ProductIds \ DOMAIN reply'.prices :
            RowsOf(price_history', pid) = RowsOf(price_history, pid)
    ]_vars

\* a refresh that fetched the price stored, then one that fetched another:
\* one row for the first price, one for the second
C17_Witness ==
  /\ reply.op = "refresh" /\ reply.status = 200 /\ reply.prices = <<1>>
  /\ ops >= 2
  /\ RowsOf(price_history, 1) = <<HistoryRow(1, 2), HistoryRow(1, 1)>>
  /\ StoredPrice(products, 1) = 1

\* the calls of send_price_alert made for an alert
MailsFor(mails, alert) == SelectSeq(mails, LAMBDA m : m.alert = alert)

\* the prices a price check may fetch
PricesFetched == {FetchedPrice(data) : data \in CheckResults} \ {NoneN, NoFetch}

\* the step is a refresh of the product that fetched this price
RefreshStep(pid, price) ==
  /\ ops' = ops + 1
  /\ reply'.op = "refresh"
  /\ DOMAIN reply'.prices = {pid}
  /\ reply'.prices[pid] = price

\* C18: when refresh_product fetches a current price, for every untriggered
\* alert of the product: if the price is <= the alert's target_price,
\* send_price_alert is called exactly once for the alert and the alert
\* becomes triggered; if the target_price is below the price, the alert
\* stays as it is, untriggered, and no mail is sent for it.
C18_RefreshTriggersReachedAlerts ==
  [][\A pid \in ProductIds, price \in PricesFetched :
       RefreshStep(pid, price) =>
         \A a \in ActiveAlerts(pid) :
           IF price <= a.target_price
           THEN /\ Len(MailsFor(sent', a.id)) = Len(MailsFor(sent, a.id)) + 1
                /\ \E b \in price_alerts' :
                     /\ b.id = a.id /\ b.triggered
                     /\ b.target_price = a.target_price /\ b.email = a.email
                /\ reply'.status = 200
           ELSE /\ MailsFor(sent', a.id) = MailsFor(sent, a.id)
                /\ a \in price_alerts'
    ]_vars

\* a refresh fetched the price 2 for a product with an alert at 2 and one at
\* 1: one mail, for the first, which is triggered; the second is not
C18_Witness ==
  /\ reply.op = "refresh" /\ reply.prices = <<2>>
  /\ \E a, b \in price_alerts :
       /\ a.product_id = 1 /\ a.target_price = 2 /\ a.triggered
       /\ b.product_id = 1 /\ b.target_price = 1 /\ ~b.triggered
       /\ Len(MailsFor(sent, a.id)) = 1
       /\ MailsFor(sent, b.id) = <<>>

\* the products that hold a url
Tracking(u) == {p \in products : p.url = u}

\* C19: at most one Product exists per URL in every state, and a request to
\* /api/track for a URL that is already tracked answers 200 'Product already
\* tracked' with the existing product, does not call fetch_product_data, and
\* leaves the Product and PriceHistory rows as they are.
C19_OneProductPerUrl ==
  /\ [](\A p, q \in products : p.url = q.url => p = q)
  /\ [][\A u \in AppUrls, data \in TrackResults :
          (reply'.op = "track" /\ Tracking(u) /= {} /\ TrackWith(u, data)) =>
            /\ reply'.status = 200
            /\ reply'.message = "Product already tracked"
            /\ reply'.product \in {p.id : p \in Tracking(u)}
            /\ ~reply'.fetched
            /\ products' = products
            /\ price_history' = price_history
       ]_vars

\* the url of product 1 was submitted again and answered so
C19_Witness ==
  /\ reply.op = "track" /\ reply.message = "Product already tracked"
  /\ reply.product = 1 /\ ~reply.fetched
  /\ Cardinality(Tracking("u1")) = 1

\* the ids of products that rows of the history or alerts refer to
Referenced(history, alerts) ==
  {history[i].product_id : i \in DOMAIN history} \cup {a.product_id : a \in alerts}

\* C20: after delete_product succeeds for a product, the Product row and
\* every PriceHistory and PriceAlert row with its product_id are gone; and in
\* every state, after any sequence of track, alert, refresh, unsubscribe,
\* delete requests and scheduled price checks, every PriceAlert and
\* PriceHistory row refers to a product that exists.
C20_DeleteLeavesNoRows ==
  /\ [](Referenced(price_history, price_alerts) \subseteq ProductIds)
  /\ [][(ops' = ops + 1 /\ reply'.op = "delete" /\ reply'.status = 200) =>
          /\ reply'.product \in ProductIds
          /\ reply'.product \notin {p.id : p \in products'}
          /\ reply'.product \notin Referenced(price_history', price_alerts')
       ]_vars

\* product 1 was deleted, with its history; product 2 and an alert for it
\* are still there
C20_Witness ==
  /\ reply.op = "delete" /\ reply.status = 200 /\ reply.product = 1
  /\ ProductIds = {2}
  /\ price_history = <<>>
  /\ \E a \in price_alerts : a.product_id = 2

\* the alerts that carry a token
Carrying(token) == {a \in price_alerts : a.has_token /\ a.id = token}

\* C21: unsubscribe(token) deletes exactly the one alert that carries the
\* token and leaves every other alert, every product and the history
\* unchanged, answering the success page; when no alert carries the token, no
\* row is changed and the failure page is returned.
C21_UnsubscribeDeletesOneAlert ==
  [][\A token \in RequestTokens :
       (ops' = ops + 1 /\ reply'.op = "unsubscribe" /\ UnsubscribeWith(token)) =>
         /\ Cardinality(Carrying(token)) <= 1
         /\ price_alerts' = price_alerts \ Carrying(token)
         /\ products' = products
         /\ price_history' = price_history
         /\ reply'.message = IF Carrying(token) = {}
                             THEN "Invalid or expired unsubscribe link."
                             ELSE "Successfully Unsubscribed"
    ]_vars

\* an alert was created for product 1, beside the one it had, and removed
\* by its token: the other alert is still there
C21_Witness ==
  /\ reply.op = "unsubscribe" /\ reply.message = "Successfully Unsubscribed"
  /\ reply.product = 1
  /\ next_alert = 3
  /\ price_alerts = {LegacyAlert}

\* C22: /api/scrape answers 400 when the URL is empty or the fetch gives
\* nothing, and otherwise 200 with the record that was fetched; in every
\* case the Product, PriceHistory and PriceAlert rows are as they were.
C22_ScrapeIsStateless ==
  [][\A u \in AppUrls, data \in TrackResults :
       (ops' = ops + 1 /\ reply'.op = "scrape" /\ ScrapeWith(u, data)) =>
         /\ products' = products
         /\ price_history' = price_history
         /\ price_alerts' = price_alerts
         /\ IF u = "" \/ data = NoRec
            THEN reply'.status = 400 /\ reply'.record = NoRec
            ELSE reply'.status = 200 /\ reply'.record = data
    ]_vars

\* a record was scraped and returned, and the database holds what it held
\* at the start
C22_Witness ==
  /\ reply.op = "scrape" /\ reply.status = 200
  /\ reply.record = Rec("Tee", 2, 3, NoneS, "True")
  /\ products = {StoredProduct(1, 2)}
  /\ price_history = InitHistory(products)
  /\ price_alerts = {}

\* the records without current_price a price check may fetch
PricelessResults == {data \in CheckResults : IsRec(data) /\ data.current_price = NoneN}

\* C24: refresh_product completes successfully, answering 200 'Price
\* updated', when the record fetched has no current_price, also when the
\* product has untriggered alerts; no alert is triggered and no mail is sent.
C24_RefreshWithoutPrice ==
  [][\A pid \in ProductIds :
       (ops' = ops + 1 /\ reply'.op = "refresh" /\ reply'.product = pid) =>
         \A data \in PricelessResults :
           \A mail \in MailChoices(RefreshMailed(pid, data)) :
             RefreshWith(pid, data, mail) =>
             /\ reply'.status = 200
             /\ reply'.message = "Price updated"
             /\ price_alerts' = price_alerts
             /\ sent' = sent
    ]_vars

\* the untriggered alerts of a product and an email
UntriggeredFor(pid, email) ==
  {a \in price_alerts : a.product_id = pid /\ a.email = email /\ ~a.triggered}

NewlyTriggered ==
  {a \in price_alerts' : a.triggered /\ \E b \in price_alerts : b.id = a.id /\ ~b.triggered}

\* the calls of send_price_alert this step made
NewMails == SubSeq(sent', Len(sent) + 1, Len(sent'))

\* C27: an alert is marked triggered only if its price-alert email was sent
\* successfully: in every price check, each alert the check marks triggered
\* has a call of send_price_alert that returned True, and an alert whose call
\* returned False stays untriggered.
C27_TriggeredOnlyIfMailed ==
  [][PriceCheckStep =>
       /\ \A a \in NewlyTriggered :
            \E i \in DOMAIN NewMails :
              NewMails[i].alert = a.id /\ NewMails[i].outcome = "sent"
       /\ \A i \in DOMAIN NewMails :
            NewMails[i].outcome = "failed" =>
              \E a \in price_alerts' : a.id = NewMails[i].alert /\ ~a.triggered
    ]_vars

\* the step is a price check that fetched a record for the product saying
\* it is unavailable
UnavailableCheck(pid, data) ==
  /\ IsRec(data) /\ data.is_available = "False"
  /\ ops' = ops + 1
  /\ \/ /\ reply'.op = "refresh" /\ reply'.product = pid
        /\ \E mail \in MailChoices(RefreshMailed(pid, data)) : RefreshWith(pid, data, mail)
     \/ /\ reply'.op = "update_all_prices"
        /\ \E fetched \in [ProductIds -> RunResults] :
             /\ fetched[pid] = data
             /\ \E mail \in MailChoices(UNION {UpdateMailed(q, fetched[q]) : q \in ProductIds}) :
                  UpdateWith(fetched, mail)

\* C28: a price check whose fetched record says the product is unavailable
\* (is_available false) triggers no alert of the product and sends no
\* price-alert email for it, whether it is the scheduled update_all_prices or
\* the manual refresh_product.
C28_NoAlertWhenUnavailable ==
  [][\A pid \in ProductIds, data \in CheckResults :
       UnavailableCheck(pid, data) =>
         \A a \in ActiveAlerts(pid) :
           /\ a \in price_alerts'
           /\ MailsFor(sent', a.id) = MailsFor(sent, a.id)
    ]_vars

\* C29: an alert's triggered flag is monotonic: once an alert is triggered,
\* no step (create_alert, refresh_product, update_all_prices or any other
\* request) sets it back to untriggered, changes its target_price, or calls
\* send_price_alert for it again; it can only be deleted, with its product or
\* by its unsubscribe link.
C29_TriggeredIsFinal ==
  [][\A a \in price_alerts :
       a.triggered =>
         /\ MailsFor(sent', a.id) = MailsFor(sent, a.id)
         /\ \A b \in price_alerts' :
              b.id = a.id => (b.triggered /\ b.target_price = a.target_price)
         /\ reply'.op \in {"alert", "refresh", "update_all_prices"} => a \in price_alerts'
    ]_vars

\* an alert was triggered and mailed by a check that fetched the price 2,
\* and a later check fetched the price 1: the alert got no second mail
C29_Witness ==
  /\ reply.op \in {"refresh", "update_all_prices"}
  /\ 1 \in DOMAIN reply.prices /\ reply.prices[1] = 1
  /\ StoredPrice(products, 1) = 1
  /\ \E a \in price_alerts :
       /\ a.product_id = 1 /\ a.triggered /\ a.target_price = 2
       /\ Len(MailsFor(sent, a.id)) = 1
       /\ MailsFor(sent, a.id)[1].current_price = 2

\* the step is a run of update_all_prices
UpdateStep ==
  /\ ops' = ops + 1
  /\ reply'.op = "update_all_prices"

\* the rows of a product, its history and its alerts stay as they are, and
\* no mail goes out for its alerts
ProductUntouched(pid) ==
  /\ \A p \in products : p.id = pid => p \in products'
  /\ RowsOf(price_history', pid) = RowsOf(price_history, pid)
  /\ {a \in price_alerts' : a.product_id = pid} = {a \in price_alerts : a.product_id = pid}
  /\ \A a \in price_alerts : a.product_id = pid => MailsFor(sent', a.id) = MailsFor(sent, a.id)

C26_OneMailPerAlert ==
  \A a \in price_alerts : Len(MailsFor(sent, a.id)) <= 1

\* a run of update_all_prices has mailed the alert of product 1 and has not
\* committed yet, while a refresh of product 1 that fetched a price at the
\* alert's target waits to write the product row
C26_Witness ==
  \E j \in JobIds, k \in JobIds :
    /\ jobs[j].kind = "update_all_prices" /\ jobs[j].pc \in {"fetch", "commit"}
    /\ 1 \in jobs[j].fired
    /\ Len(MailsFor(sent, 1)) = 1
    /\ jobs[k].kind = "refresh" /\ jobs[k].pc = "flush"
    /\ jobs[k].todo = <<1>> /\ jobs[k].data.current_price = 2
    /\ ~CanWrite(k)

====
